---- MODULE Spec2Model ----
(***************************************************************************)
(* py-jsonapi: a model of the request pipeline (jsonapi.base.api and       *)
(* jsonapi.asyncio.api), the endpoint handlers, the unserializer, the      *)
(* error classes and the include resolvers.                                *)
(*                                                                         *)
(* Python values are modelled as follows.                                  *)
(*   - an identifier (typename, id) is the tuple <<typename, id>>;         *)
(*   - an exception is a record [cls, status, meta, errors]: cls is the    *)
(*     class name, status the http_status attribute (0 when the class has  *)
(*     none), meta whether Error.meta is non-empty, errors the content of  *)
(*     ErrorList.errors;                                                   *)
(*   - a call whose arguments do not fit the callee's signature, a lookup  *)
(*     of an attribute the object does not have and a read of a name that  *)
(*     is not bound raise TypeError, AttributeError and NameError, as the  *)
(*     interpreter does.                                                   *)
(***************************************************************************)
EXTENDS Integers, Sequences, FiniteSets, TLC

VARIABLES
    api,        \* which API class serves: "base" (jsonapi.base.api.API) or "asyncio"
    debug,      \* API.debug
    store,      \* the backend's content: identifier -> resource record
    pc,         \* position inside handle_request
    req,        \* the Request being handled
    handler,    \* the handler object (its attributes)
    exc,        \* the exception travelling to the except clauses (None: none)
    calls,      \* the calls made on the session, and "respond" when the body is built
    trace,      \* the stages of handle_request entered, in order
    result,     \* what handle_request gives its caller: a Response or a raised exception
    fin,        \* the argument of the function under study (function specifications)
    fout        \* its outcome

vars == <<api, debug, store, pc, req, handler, exc, calls, trace, result, fin, fout>>

None == [cls |-> "None"]

\* F applied to the value v: names an intermediate result
With(v, F(_)) == F(v)

(***************************************************************************)
(* Bounds of the model.                                                    *)
(***************************************************************************)
\* the number of fields (attributes and relationships) a PATCH body names
MaxFields == 2
\* the number of identifiers in the resource linkage of a request body
MaxLinkage == 2

(***************************************************************************)
(* The registered types: User (attributes name, email; to-many posts) and  *)
(* Post (attribute title; to-one author).                                  *)
(***************************************************************************)
Typenames == {"User", "Post"}
ResourceIds == {"1", "2"}
AllIds == Typenames \X ResourceIds

\* jsonapi.base.schema.Schema.attributes
SchemaAttributes(typename) ==
    IF typename = "User" THEN {"name", "email"} ELSE {"title"}

\* jsonapi.base.schema.Schema.relationships: name -> to_one / to_many
SchemaRelationships(typename) ==
    IF typename = "User" THEN {"posts"} ELSE {"author"}

\* BaseRelationship.to_many
ToMany(typename, relname) == typename = "User" /\ relname = "posts"

\* API.has_type
has_type(typename) == typename \in Typenames

(***************************************************************************)
(* jsonapi.base.errors                                                     *)
(***************************************************************************)
\* the http_status each Error subclass passes to Error.__init__
HttpStatus(cls) ==
    CASE cls = "BadRequest" -> 400
      [] cls = "InvalidDocument" -> 400
      [] cls = "UnresolvableIncludePath" -> 400
      [] cls = "Forbidden" -> 403
      [] cls = "ReadOnlyAttribute" -> 403
      [] cls = "NotFound" -> 404
      [] cls = "ResourceNotFound" -> 404
      [] cls = "RelationshipNotFound" -> 404
      [] cls = "MethodNotAllowed" -> 405
      [] cls = "Conflict" -> 409
      [] cls = "UnsupportedMediaType" -> 415
      [] OTHER -> 500

\* the subclasses of jsonapi.base.errors.Error that the model raises
ErrorClasses ==
    {"BadRequest", "InvalidDocument", "UnresolvableIncludePath", "Forbidden",
     "ReadOnlyAttribute", "NotFound", "ResourceNotFound", "RelationshipNotFound",
     "MethodNotAllowed", "Conflict", "UnsupportedMediaType"}

\* the names errors.py binds at module level
ErrorsModuleNames == ErrorClasses \cup {"Error", "ErrorList", "error_to_response",
    "InternalServerError", "NotAcceptable", "Conflict", "ReadOnlyRelationship",
    "UnsortableField", "UnfilterableField"}

\* Error.__init__ (through the subclass constructor)
NewError(cls) == [cls |-> cls, status |-> HttpStatus(cls), meta |-> FALSE, errors |-> <<>>]

\* an Error built by application code with a meta dictionary
NewErrorWithMeta(cls) == [NewError(cls) EXCEPT !.meta = TRUE]

\* an exception that is neither an Error nor an ErrorList
PyException(cls) == [cls |-> cls, status |-> 0, meta |-> FALSE, errors |-> <<>>]

\* isinstance(e, Error)
IsError(e) == e.cls \in ErrorClasses

\* isinstance(e, ErrorList)
IsErrorList(e) == e.cls = "ErrorList"

\* ErrorList.__init__(): no errors, and no attribute but errors
NewErrorList == [cls |-> "ErrorList", status |-> 0, meta |-> FALSE, errors |-> <<>>,
                 json_cached |-> FALSE]

\* the attributes an ErrorList instance answers to
ErrorListAttributes == {"errors", "json", "append", "extend"}

\* ErrorList.__bool__
ErrorListBool(el) == el.errors # <<>>

\* "del self.json" on a cached_property: the descriptor has no __delete__, so the
\* statement removes the cached value from the instance and raises AttributeError
\* when nothing is cached.
DelJson(el) ==
    IF el.json_cached
    THEN [exc |-> None, el |-> [el EXCEPT !.json_cached = FALSE]]
    ELSE [exc |-> PyException("AttributeError"), el |-> el]

\* ErrorList.append(error): the entry is added, then the cache is invalidated
ErrorListAppend(el, error) ==
    IF ~IsError(error)
    THEN [exc |-> PyException("AssertionError"), el |-> el]
    ELSE DelJson([el EXCEPT !.errors = Append(@, error)])

\* ErrorList.extend(error): the entries are added, then the cache is invalidated
ErrorListExtend(el, error) ==
    IF ~IsErrorList(error)
    THEN [exc |-> PyException("AssertionError"), el |-> el]
    ELSE DelJson([el EXCEPT !.errors = @ \o error.errors])


\* the decimal digits of a natural number, as str(n) and json.dumps(n) write them
RECURSIVE Digits(_)
Digits(n) ==
    LET digit == <<"0", "1", "2", "3", "4", "5", "6", "7", "8", "9">>
    IN  IF n < 10 THEN digit[n + 1] ELSE Digits(n \div 10) \o digit[(n % 10) + 1]

\* a member of a JSON document whose value is the Python int n, and one whose
\* value is the Python str text
JsonNumber(n) == [type |-> "number", text |-> Digits(n)]

JsonString(text) == [type |-> "string", text |-> text]

\* Error.json: raises NameError for an error with meta (the local name meta is unbound)
ErrorJson(e) ==
    IF e.meta
    THEN [exc |-> PyException("NameError"), val |-> None]
    ELSE [exc |-> None, val |-> [status |-> JsonNumber(e.status), title |-> e.cls]]

RECURSIVE ErrorListJsonFrom(_, _)
ErrorListJsonFrom(errs, i) ==
    IF i > Len(errs) THEN [exc |-> None, val |-> <<>>]
    ELSE LET head == ErrorJson(errs[i])
             rest == ErrorListJsonFrom(errs, i + 1)
         IN  IF head.exc # None THEN head
             ELSE IF rest.exc # None THEN rest
             ELSE [exc |-> None, val |-> <<head.val>> \o rest.val]

\* ErrorList.json
ErrorListJson(el) == ErrorListJsonFrom(el.errors, 1)

\* the Response object: status, body ("errors" or "data" document) and the headers set
NewResponse == [status |-> 200, status_code |-> 0, body |-> None, location |-> FALSE]

\* error_to_response(error, json_dumps)
error_to_response(error) ==
    LET body == IF IsError(error) THEN ErrorJson(error) ELSE ErrorListJson(error)
    IN  IF ~IsError(error) /\ ~IsErrorList(error)
        THEN [exc |-> PyException("AssertionError"), val |-> None]
        ELSE IF body.exc # None THEN [exc |-> body.exc, val |-> None]
        ELSE IF IsErrorList(error) /\ "http_status" \notin ErrorListAttributes
        THEN [exc |-> PyException("AttributeError"), val |-> None]
        ELSE [exc |-> None,
              val |-> [NewResponse EXCEPT
                         !.status = error.status,
                         !.body = [errors |-> IF IsError(error) THEN <<body.val>>
                                              ELSE body.val]]]

(***************************************************************************)
(* The backend and the session adapters.                                   *)
(* A stored resource is [exists, attrs, rel]: rel is the value of the      *)
(* type's relationship, a sequence of identifiers (a to-one relationship   *)
(* holds at most one: the empty sequence is Python's None).                *)
(* The base API is deployed on the sqlalchemy adapter, the asyncio API on  *)
(* the motorengine adapter.                                                *)
(***************************************************************************)
InitialAttrs(typename) == [a \in SchemaAttributes(typename) |-> "v0"]

Stored(typename, rel) == [exists |-> TRUE, attrs |-> InitialAttrs(typename), rel |-> rel]

Absent(typename) == [exists |-> FALSE, attrs |-> InitialAttrs(typename), rel |-> <<>>]

U1 == <<"User", "1">>
U2 == <<"User", "2">>
P1 == <<"Post", "1">>
P2 == <<"Post", "2">>

\* User 1 and Post 1, unrelated
GraphEmpty ==
    [i \in AllIds |-> IF i \in {U1, P1} THEN Stored(i[1], <<>>) ELSE Absent(i[1])]

\* User 1 wrote Post 1: a cycle author.posts.author
GraphCycle ==
    [i \in AllIds |->
        IF i = U1 THEN Stored("User", <<P1>>)
        ELSE IF i = P1 THEN Stored("Post", <<U1>>)
        ELSE Absent(i[1])]

\* User 1 wrote both posts (the posts share a relative), User 2 wrote none
GraphShared ==
    [i \in AllIds |->
        IF i = U1 THEN Stored("User", <<P1, P2>>)
        ELSE IF i = U2 THEN Stored("User", <<>>)
        ELSE Stored("Post", <<U1>>)]

\* Post 2 names an author that is not stored
GraphDangling ==
    [i \in AllIds |->
        IF i = U1 THEN Stored("User", <<P1, P2>>)
        ELSE IF i = U2 THEN Absent("User")
        ELSE IF i = P1 THEN Stored("Post", <<U1>>)
        ELSE Stored("Post", <<U2>>)]

Graphs == {GraphEmpty, GraphCycle, GraphShared, GraphDangling}

\* an entry of the session's call log; ref is the reference of the object a
\* query of the backend ("fetch") returned
Call(op, ids) == [op |-> op, ids |-> ids, ref |-> 0]

\* the object the backend hands out for an identifier: sqlalchemy's identity map
\* returns the one instance of the session (reference 0), mongoengine/motorengine
\* build a new document per query (the reference is the position of the query)
Reference(a, log) == IF a = "base" THEN 0 ELSE Len(log) + 1

\* the body of Session.get after the call is logged: one query of the backend
FetchOne(a, st, log, identifier, required) ==
    IF identifier[1] \notin Typenames
    THEN [exc |-> PyException("KeyError"), val |-> <<>>, log |-> log]
    ELSE With([op |-> "fetch", ids |-> <<identifier>>, ref |-> Reference(a, log)],
           LAMBDA fetch :
             IF identifier \in DOMAIN st /\ st[identifier].exists
             THEN [exc |-> None, val |-> <<[id |-> identifier, ref |-> fetch.ref]>>,
                   log |-> Append(log, fetch)]
             ELSE IF required \/ a = "base"
             THEN [exc |-> NewError("ResourceNotFound"), val |-> <<>>,
                   log |-> Append(log, fetch)]
             ELSE [exc |-> None, val |-> <<>>, log |-> Append(log, fetch)])

\* Session.get answering from the objects the session has loaded before
SessionGetCached(a, st, log, identifier, required) ==
    IF \E i \in 1..Len(log) : log[i].op = "fetch" /\ log[i].ids = <<identifier>>
    THEN [exc |-> None,
          val |-> <<[id |-> identifier,
                     ref |-> log[CHOOSE i \in 1..Len(log) :
                                    log[i].op = "fetch" /\ log[i].ids = <<identifier>>].ref]>>,
          log |-> Append(log, Call("get", <<identifier>>))]
    ELSE FetchOne(a, st, Append(log, Call("get", <<identifier>>)), identifier, required)

\* Session.get(identifier, required): val holds the resource, or nothing for None
SessionGet(a, st, log, identifier, required) ==
    FetchOne(a, st, Append(log, Call("get", <<identifier>>)), identifier, required)

\* d[key] = value on a dictionary kept in insertion order, a sequence of [id, res]
DictSet(d, entry) ==
    LET seen == {k \in 1..Len(d) : d[k].id = entry.id}
    IN  IF seen = {} THEN Append(d, entry)
        ELSE [k \in 1..Len(d) |-> IF k \in seen THEN entry ELSE d[k]]

\* d.update(e)
RECURSIVE DictUpdate(_, _)
DictUpdate(d, e) ==
    IF e = <<>> THEN d ELSE DictUpdate(DictSet(d, Head(e)), Tail(e))

\* d.keys()
Keys(d) == {d[k].id : k \in 1..Len(d)}

RECURSIVE GetManyFrom(_, _, _, _, _, _, _)
GetManyFrom(a, st, log, identifiers, required, i, acc) ==
    IF i > Len(identifiers) THEN [exc |-> None, val |-> acc, log |-> log]
    ELSE With(FetchOne(a, st, log, identifiers[i], required), LAMBDA r :
             IF r.exc # None THEN [exc |-> r.exc, val |-> <<>>, log |-> r.log]
             ELSE GetManyFrom(a, st, r.log, identifiers, required, i + 1,
                              DictSet(acc, [id |-> identifiers[i], res |-> r.val])))

\* Session.get_many(identifiers, required): val is the dictionary in insertion
\* order, a sequence of [id, res]
SessionGetMany(a, st, log, identifiers, required) ==
    GetManyFrom(a, st, Append(log, Call("get_many", identifiers)), identifiers,
                required, 1, <<>>)

(***************************************************************************)
(* Requests.  The path of the uri below the API's base uri is a sequence   *)
(* of segments; every segment matches the character classes of build_uris. *)
(***************************************************************************)
Methods == {"head", "get", "post", "patch", "delete", "put"}

UriTypes == Typenames \cup {"Ghost"}
UriRelnames == {"posts", "author", "nope"}

CollectionPaths == {<<t>> : t \in UriTypes}
ResourcePaths == {<<t, i>> : t \in UriTypes, i \in ResourceIds}
RelatedPaths == {<<t, i, r>> : t \in UriTypes, i \in ResourceIds, r \in UriRelnames}
RelationshipsPaths ==
    {<<t, i, "relationships", r>> : t \in UriTypes, i \in ResourceIds, r \in UriRelnames}

\* the asyncio handler package of this source tree holds the resource and the
\* related handler only, so the asyncio API is driven on these endpoints
PathsOf(a) ==
    IF a = "base"
    THEN {<<>>} \cup CollectionPaths \cup ResourcePaths \cup RelatedPaths
         \cup RelationshipsPaths
    ELSE {<<>>} \cup ResourcePaths \cup RelatedPaths

JsonApiMediaType == "application/vnd.api+json"
ContentTypes == {JsonApiMediaType, "text/plain"}

\* Request.japi_include of the requests studied
IncludeLists ==
    {<<>>, << <<"posts">> >>, << <<"author">> >>, << <<"nope">> >>,
     << <<"posts", "author">> >>, << <<"author", "posts">> >>,
     << <<"posts", "nope">> >>, << <<"posts">>, <<"posts", "author">> >>,
     << <<"author">>, <<"author", "posts", "author">> >>}

\* what a field's setter (Attribute.set, Relationship.set / extend / clear) does:
\* it stores the value, or raises an Error, an Error with a meta dictionary, an
\* ErrorList holding one Error, or an exception of another class
Behaviours == {"ok", "Error", "ErrorMeta", "ErrorList", "Exception"}

\* an attribute declared without a write accessor has fset None, and
\* BaseMarker.set calls self.fset(resource, value): TypeError
AttributeBehaviours == Behaviours \cup {"NoSetter"}

Raised(b) ==
    CASE b = "Error" -> NewError("ReadOnlyAttribute")
      [] b = "ErrorMeta" -> NewErrorWithMeta("Forbidden")
      [] b = "ErrorList" -> [NewErrorList EXCEPT !.errors = <<NewError("Forbidden")>>,
                                                 !.json_cached = TRUE]
      [] b = "Exception" -> PyException("ValueError")
      [] b = "NoSetter" -> PyException("TypeError")
      [] OTHER -> None

\* build_uris: the regular expression of an endpoint kind, matched with fullmatch
UriMatches(kind, path) ==
    CASE kind = "collection" -> Len(path) = 1
      [] kind = "resource" -> Len(path) = 2
      [] kind = "relationships" -> Len(path) = 4 /\ path[3] = "relationships"
      [] kind = "related" -> Len(path) = 3
      [] OTHER -> FALSE

\* API._create_routes: the routes in the order they are tried
Routes == <<"collection", "related", "resource", "relationships">>

\* match.groupdict() of the route's expression
GroupDict(kind, path) ==
    [type |-> path[1],
     id |-> IF Len(path) >= 2 THEN path[2] ELSE "",
     relname |-> IF kind = "related" THEN path[3]
                 ELSE IF kind = "relationships" THEN path[4] ELSE ""]

\* API._find_handler: the first matching route, NotFound when there is none
find_handler(path) ==
    LET hits == {k \in 1..Len(Routes) : UriMatches(Routes[k], path)}
    IN  IF hits = {} THEN [exc |-> NewError("NotFound"), kind |-> "", args |-> None]
        ELSE LET k == CHOOSE k \in hits : \A j \in hits : k <= j
             IN  [exc |-> None, kind |-> Routes[k], args |-> GroupDict(Routes[k], path)]

\* the parameters (after self) of each handler class's __init__
InitParameters(a, kind) ==
    IF a = "base" /\ kind \in {"collection", "resource"}
    THEN {"api", "request"}
    ELSE {"api", "db", "request"}

\* the keywords handle_request passes to HandlerType(...)
InitKeywords == {"api", "db", "request"}

\* the attributes of a handler after __init__ (BaseHandler.__init__ included);
\* saved and deleted are the session's staged resources, attempts the fields
\* whose accessor the unserializer has called
NewHandler(kind, args) ==
    [kind |-> kind, typename |-> args.type, resource_id |-> args.id,
     relname |-> args.relname, real_typename |-> "", resource |-> <<>>,
     mem |-> Absent("User"), response |-> NewResponse,
     saved |-> {}, deleted |-> {}, attempts |-> <<>>]

NoHandler == NewHandler("", [type |-> "", id |-> "", relname |-> ""])

\* HandlerType(api=self, db=self._db.session(), request=request)
construct(a, kind, args) ==
    IF InitKeywords # InitParameters(a, kind)
    THEN [exc |-> PyException("TypeError"), h |-> NoHandler]
    ELSE [exc |-> None, h |-> NewHandler(kind, args)]

(***************************************************************************)
(* The context a handler method works in: the handler object, the log of   *)
(* the session's calls, the backend's content and the exception raised.    *)
(***************************************************************************)
Ctx(h, log, st) == [h |-> h, log |-> log, st |-> st, exc |-> None]

Raise(ctx, e) == [ctx EXCEPT !.exc = e]

Logged(ctx, op, ids) == [ctx EXCEPT !.log = Append(@, Call(op, ids))]

\* Session.save([resource]): motorengine stages the resource, sqlalchemy adds it
\* to the unit of work
SessionSave(ctx) ==
    LET id == ctx.h.resource[1].id
    IN  [Logged(ctx, "save", <<id>>) EXCEPT !.h.saved = @ \cup {id},
                                            !.h.deleted = @ \ {id}]

\* Session.delete([resource])
SessionDelete(ctx) ==
    LET id == ctx.h.resource[1].id
    IN  [Logged(ctx, "delete", <<id>>) EXCEPT !.h.deleted = @ \cup {id},
                                              !.h.saved = @ \ {id}]

\* Session.commit(): the staged resources reach the backend
SessionCommit(ctx) ==
    [Logged(ctx, "commit", <<>>) EXCEPT
        !.st = [i \in DOMAIN ctx.st |->
                   IF i \in ctx.h.deleted THEN [ctx.st[i] EXCEPT !.exists = FALSE]
                   ELSE IF i \in ctx.h.saved THEN ctx.h.mem
                   ELSE ctx.st[i]]]

\* the first lines every prepare() shares: media type, type, loading the resource
LoadResource(a, ctx, rq) ==
    IF rq.ctype # JsonApiMediaType THEN Raise(ctx, NewError("UnsupportedMediaType"))
    ELSE IF ~has_type(ctx.h.typename) THEN Raise(ctx, NewError("NotFound"))
    ELSE With(SessionGet(a, ctx.st, ctx.log, <<ctx.h.typename, ctx.h.resource_id>>, FALSE),
           LAMBDA r :
             IF r.exc # None THEN Raise([ctx EXCEPT !.log = r.log], r.exc)
             ELSE IF r.val = <<>> THEN Raise([ctx EXCEPT !.log = r.log], NewError("NotFound"))
             ELSE [ctx EXCEPT !.log = r.log,
                              !.h.resource = r.val,
                              !.h.mem = ctx.st[<<ctx.h.typename, ctx.h.resource_id>>],
                              !.h.real_typename = ctx.h.typename])

\* jsonapi.asyncio.handler.resource.ResourceHandler.prepare
ResourcePrepare(a, ctx, rq) == LoadResource(a, ctx, rq)

\* RelatedHandler.prepare (base and asyncio): the relationship name is not checked
RelatedPrepare(a, ctx, rq) == LoadResource(a, ctx, rq)

\* RelationshipHandler.prepare
RelationshipPrepare(a, ctx, rq) ==
    With(LoadResource(a, ctx, rq), LAMBDA c :
        IF c.exc # None THEN c
        ELSE IF c.h.relname \notin SchemaRelationships(c.h.real_typename)
        THEN Raise(c, NewError("NotFound"))
        ELSE c)

\* handler.prepare() of the handler class that was constructed
prepare(a, ctx, rq) ==
    CASE ctx.h.kind = "relationships" -> RelationshipPrepare(a, ctx, rq)
      [] ctx.h.kind = "related" -> RelatedPrepare(a, ctx, rq)
      [] OTHER -> ResourcePrepare(a, ctx, rq)

(***************************************************************************)
(* jsonapi.base.validators on the bodies studied.  A relationship object   *)
(* is [kind, ids]: "notjson" (the body is no JSON: Request.json is None),  *)
(* "empty" ({}), "extra" (a member other than links, data, meta), "nodata" *)
(* ({"meta": {}}), "invalid" (data is a string), "null" (data is null),    *)
(* "one" (data is the identifier object ids[1]), "many" (data is the list  *)
(* of the identifier objects ids).                                         *)
(***************************************************************************)
LinkageKinds == {"notjson", "empty", "extra", "nodata", "invalid", "null", "one", "many"}

RECURSIVE SeqsUpTo(_, _)
SeqsUpTo(S, n) ==
    IF n = 0 THEN {<<>>}
    ELSE LET shorter == SeqsUpTo(S, n - 1)
         IN  shorter \cup {Append(q, x) : q \in shorter, x \in S}

RelationshipObjects ==
    {[kind |-> k, ids |-> <<>>] : k \in LinkageKinds \ {"one", "many"}}
    \cup {[kind |-> "one", ids |-> <<i>>] : i \in AllIds}
    \cup {[kind |-> "many", ids |-> q] : q \in SeqsUpTo(AllIds, MaxLinkage)}

\* assert_relationship_object (assert_resource_linkage and
\* assert_resource_identifier_object included)
assert_relationship_object(d) ==
    IF d.kind \in {"notjson", "empty", "extra", "invalid"}
    THEN NewError("InvalidDocument")
    ELSE None

(***************************************************************************)
(* The schema's accessors and jsonapi.base.serializer.Unserializer (the    *)
(* asyncio Unserializer runs the same statements on an awaited session).   *)
(* b is what the accessor of the field does with the value.                *)
(***************************************************************************)
\* Relationship.set(resource, relatives)
RelationshipSet(ctx, relatives, b) ==
    IF b = "ok" THEN [ctx EXCEPT !.h.mem.rel = relatives] ELSE Raise(ctx, Raised(b))

\* ToManyRelationship.extend(resource, relatives)
RelationshipExtend(ctx, relatives, b) ==
    IF b = "ok" THEN [ctx EXCEPT !.h.mem.rel = @ \o relatives] ELSE Raise(ctx, Raised(b))

\* Relationship.clear(resource)
RelationshipClear(ctx, b) ==
    IF b = "ok" THEN [ctx EXCEPT !.h.mem.rel = <<>>] ELSE Raise(ctx, Raised(b))

\* the unserializer reaches the accessor of the field name
Attempt(ctx, name) == [ctx EXCEPT !.h.attempts = Append(@, name)]

\* Attribute.set(resource, value)
AttributeSet(ctx, name, b) ==
    IF b = "ok" THEN [Attempt(ctx, name) EXCEPT !.h.mem.attrs[name] = "v1"]
    ELSE Raise(Attempt(ctx, name), Raised(b))

\* list(relatives.values()) of a get_many result
Values(dict) == [k \in 1..Len(dict) |-> dict[k].id]

\* Unserializer.update_relationship
update_relationship(a, ctx, typename, relname, obj, b) ==
    IF relname \notin SchemaRelationships(typename)
    THEN Raise(ctx, PyException("KeyError"))
    ELSE IF obj.kind = "notjson" THEN Raise(ctx, PyException("TypeError"))
    ELSE IF obj.kind \in {"nodata", "empty", "extra"} THEN ctx
    ELSE IF ~ToMany(typename, relname)
    THEN IF obj.kind = "null" THEN RelationshipSet(Attempt(ctx, relname), <<>>, b)
         ELSE IF obj.kind \in {"many", "invalid"}
         THEN Raise(ctx, PyException("TypeError"))
         ELSE With(SessionGet(a, ctx.st, ctx.log, obj.ids[1], TRUE), LAMBDA r :
                IF r.exc # None THEN Raise([ctx EXCEPT !.log = r.log], r.exc)
                ELSE RelationshipSet(Attempt([ctx EXCEPT !.log = r.log], relname),
                                     <<obj.ids[1]>>, b))
    ELSE IF obj.kind \in {"null", "one", "invalid"}
         THEN Raise(ctx, PyException("TypeError"))
         ELSE With(SessionGetMany(a, ctx.st, ctx.log, obj.ids, TRUE), LAMBDA r :
                IF r.exc # None THEN Raise([ctx EXCEPT !.log = r.log], r.exc)
                ELSE RelationshipSet(Attempt([ctx EXCEPT !.log = r.log], relname),
                                     Values(r.val), b))

\* Unserializer.extend_relationship (the relationship is to-many)
extend_relationship(a, ctx, typename, relname, obj, b) ==
    IF ~ToMany(typename, relname) THEN Raise(ctx, PyException("AssertionError"))
    ELSE IF obj.kind \in {"nodata", "empty", "extra"} THEN ctx
    ELSE IF obj.kind # "many" THEN Raise(ctx, PyException("TypeError"))
    ELSE With(SessionGetMany(a, ctx.st, ctx.log, obj.ids, TRUE), LAMBDA r :
           IF r.exc # None THEN Raise([ctx EXCEPT !.log = r.log], r.exc)
           ELSE RelationshipExtend(Attempt([ctx EXCEPT !.log = r.log], relname),
                                   Values(r.val), b))

\* Unserializer.clear_relationship
clear_relationship(ctx, relname, b) == RelationshipClear(Attempt(ctx, relname), b)

\* the two except clauses around a setter: "except Error: error_list.append(err)"
\* and "except ErrorList: error_list.extend(err)"; any other exception, and
\* whatever append or extend raise themselves, leaves the method
Collect(el, e) ==
    IF IsError(e) THEN ErrorListAppend(el, e)
    ELSE IF IsErrorList(e) THEN ErrorListExtend(el, e)
    ELSE [exc |-> e, el |-> el]

\* the loop of Unserializer.update_attributes over attributes_object.items();
\* an attribute is [name, b]
RECURSIVE UpdateAttributesFrom(_, _, _, _)
UpdateAttributesFrom(ctx, attributes, i, el) ==
    IF i > Len(attributes)
    THEN IF ErrorListBool(el) THEN Raise(ctx, el) ELSE ctx
    ELSE IF attributes[i].name \notin SchemaAttributes(ctx.h.real_typename)
    THEN Raise(ctx, PyException("KeyError"))
    ELSE With(AttributeSet(ctx, attributes[i].name, attributes[i].b), LAMBDA c :
           IF c.exc = None THEN UpdateAttributesFrom(c, attributes, i + 1, el)
           ELSE With(Collect(el, c.exc), LAMBDA r :
                  IF r.exc # None THEN Raise(c, r.exc)
                  ELSE UpdateAttributesFrom(Raise(c, None), attributes, i + 1, r.el)))

\* Unserializer.update_attributes
update_attributes(ctx, attributes) == UpdateAttributesFrom(ctx, attributes, 1, NewErrorList)

\* the loop of update_resource over the relationships object; a relationship is
\* [name, b, obj]
RECURSIVE UpdateRelationshipsFrom(_, _, _, _, _)
UpdateRelationshipsFrom(a, ctx, rels, i, el) ==
    IF i > Len(rels)
    THEN IF ErrorListBool(el) THEN Raise(ctx, el) ELSE ctx
    ELSE With(update_relationship(a, ctx, ctx.h.real_typename, rels[i].name,
                                  rels[i].obj, rels[i].b), LAMBDA c :
           IF c.exc = None THEN UpdateRelationshipsFrom(a, c, rels, i + 1, el)
           ELSE With(Collect(el, c.exc), LAMBDA r :
                  IF r.exc # None THEN Raise(c, r.exc)
                  ELSE UpdateRelationshipsFrom(a, Raise(c, None), rels, i + 1, r.el)))

\* Unserializer.update_resource; the resource object is [kind, type, id, attrs, rels],
\* id "" when the member is absent
update_resource(a, ctx, doc) ==
    IF doc.id = "" THEN Raise(ctx, PyException("KeyError"))
    ELSE IF doc.id # ctx.h.resource[1].id[2] \/ doc.type # ctx.h.real_typename
    THEN Raise(ctx, PyException("AssertionError"))
    ELSE With(update_attributes(ctx, doc.attrs), LAMBDA c :
           IF c.exc = None THEN UpdateRelationshipsFrom(a, c, doc.rels, 1, NewErrorList)
           ELSE With(Collect(NewErrorList, c.exc), LAMBDA r :
                  IF r.exc # None THEN Raise(c, r.exc)
                  ELSE UpdateRelationshipsFrom(a, Raise(c, None), doc.rels, 1, r.el)))

(***************************************************************************)
(* jsonapi.base.serializer.Serializer and jsonapi.base.utilities           *)
(***************************************************************************)
\* the attributes a Serializer instance answers to
SerializerAttributes ==
    {"schema", "serialize_resource", "serialize_identifier", "serialize_attributes",
     "serialize_relationships", "serialize_relationship"}

\* the parameters of utilities.ensure_identifier_object and relative_identifiers
ensure_identifier_object_parameters == <<"api", "obj">>
relative_identifiers_parameters == <<"api", "resource", "relname">>

\* utilities.ensure_identifier_object(*args)
ensure_identifier_object(args) ==
    IF Len(args) # Len(ensure_identifier_object_parameters)
    THEN [exc |-> PyException("TypeError"), val |-> None]
    ELSE [exc |-> None, val |-> [type |-> args[2][1], id |-> args[2][2]]]

\* Serializer.serialize_relationship: the relationship object, data being the
\* sequence of the identifier objects (empty for null and for [])
serialize_relationship(mem) ==
    IF mem.rel = <<>> THEN [exc |-> None, val |-> [data |-> <<>>]]
    ELSE LET first == ensure_identifier_object(<<mem.rel[1]>>)
         IN  IF first.exc # None THEN [exc |-> first.exc, val |-> None]
             ELSE [exc |-> None,
                   val |-> [data |-> [k \in 1..Len(mem.rel) |->
                                ensure_identifier_object(<<mem.rel[k]>>).val]]]

\* Serializer.serialize_resource with fields = None: the identifier, the attributes
\* by sorted name, the relationships by sorted name (a type has one relationship)
serialize_resource(identifier, mem) ==
    With(serialize_relationship(mem), LAMBDA rel :
        IF rel.exc # None THEN rel
        ELSE [exc |-> None,
              val |-> [type |-> identifier[1], id |-> identifier[2],
                       attributes |-> mem.attrs, relationships |-> rel.val]])

\* utilities.relative_identifiers(*args): RelationshipNotFound is read from the
\* name errors, which the module does not bind; the function returns None
relative_identifiers(args) ==
    IF Len(args) # Len(relative_identifiers_parameters)
    THEN [exc |-> PyException("TypeError"), val |-> None]
    ELSE IF args[3] \notin SchemaRelationships(args[2].id[1])
    THEN [exc |-> PyException("NameError"), val |-> None]
    ELSE [exc |-> None, val |-> None]

(***************************************************************************)
(* The include resolvers.  resources is a sequence of resource objects,    *)
(* paths a sequence of include paths; the result val is the returned       *)
(* dictionary, a sequence of [id, res].                                    *)
(***************************************************************************)
\* the inner loop of Session.get_relatives over the resources of one step
RECURSIVE RelidsFrom(_, _, _, _)
RelidsFrom(resources, relname, i, relids) ==
    IF i > Len(resources) THEN [exc |-> None, val |-> relids]
    ELSE With(relative_identifiers(<<relname, resources[i]>>), LAMBDA tmp :
           IF tmp.exc # None
           THEN IF tmp.exc.cls = "RelationshipNotFound"
                THEN [exc |-> NewError("UnresolvableIncludePath"), val |-> {}]
                ELSE [exc |-> tmp.exc, val |-> {}]
           \* relids.update(tmp): None is not iterable
           ELSE IF tmp.val = None THEN [exc |-> PyException("TypeError"), val |-> {}]
           ELSE RelidsFrom(resources, relname, i + 1, relids \cup tmp.val))

\* an enumeration of a set of identifiers (the iteration order of a Python set)
RECURSIVE SetToSeq(_)
SetToSeq(S) ==
    IF S = {} THEN <<>>
    ELSE LET x == CHOOSE x \in S : TRUE IN <<x>> \o SetToSeq(S \ {x})

\* the resource objects of a get_many result: list(relatives.values())
Resources(dict) == [k \in 1..Len(dict) |-> dict[k].res[1]]

\* Session.get_relatives: the walk along one path from step i on
RECURSIVE RelativesAlong(_, _, _, _, _, _, _)
RelativesAlong(a, st, log, resources, path, i, all) ==
    IF i > Len(path) THEN [exc |-> None, val |-> all, log |-> log]
    ELSE With(RelidsFrom(resources, path[i], 1, {}), LAMBDA ids :
           IF ids.exc # None THEN [exc |-> ids.exc, val |-> <<>>, log |-> log]
           ELSE With(SessionGetMany(a, st, log, SetToSeq(ids.val), TRUE), LAMBDA r :
                  IF r.exc # None THEN [exc |-> r.exc, val |-> <<>>, log |-> r.log]
                  ELSE RelativesAlong(a, st, r.log, Resources(r.val), path, i + 1,
                                      DictUpdate(all, r.val))))

\* Session.get_relatives: the loop over the paths
RECURSIVE GetRelativesFrom(_, _, _, _, _, _, _)
GetRelativesFrom(a, st, log, resources, paths, p, all) ==
    IF p > Len(paths) THEN [exc |-> None, val |-> all, log |-> log]
    ELSE With(RelativesAlong(a, st, log, resources, paths[p], 1, all), LAMBDA r :
           IF r.exc # None THEN r
           ELSE GetRelativesFrom(a, st, r.log, resources, paths, p + 1, r.val))

\* jsonapi.asyncio.database.Session.get_relatives(resources, paths)
get_relatives(a, st, log, resources, paths) ==
    GetRelativesFrom(a, st, log, resources, paths, 1, <<>>)

\* the methods of jsonapi.base.api.API
APIAttributes ==
    {"get_resource_class", "get_schema", "get_serializer", "get_unserializer",
     "get_typename", "get_typenames", "has_type", "dump_json", "load_json",
     "reverse_url", "add_type", "handle_request"}

\* BulkSession.get_many(identifiers): groupby calls api.get_db for the first
\* identifier; with no identifier no adapter is asked
BulkGetMany(a, st, log, identifiers) ==
    LET log1 == Append(log, Call("get_many", identifiers))
    IN  IF identifiers = <<>> THEN [exc |-> None, val |-> <<>>, log |-> log1]
        ELSE IF "get_db" \notin APIAttributes
        THEN [exc |-> PyException("AttributeError"), val |-> <<>>, log |-> log1]
        ELSE GetManyFrom(a, st, log1, identifiers, FALSE, 1, <<>>)

\* the inner loop of BulkSession.fetch_includes over the resources of one step
RECURSIVE IncludeIdsFrom(_, _, _, _, _)
IncludeIdsFrom(st, resources, relname, i, ids) ==
    IF i > Len(resources) THEN [exc |-> None, val |-> ids]
    ELSE IF "has_relationship" \notin SerializerAttributes
    THEN [exc |-> PyException("AttributeError"), val |-> {}]
    ELSE IF relname \notin SchemaRelationships(resources[i].id[1])
    THEN IF "IncludePathNotFound" \in ErrorsModuleNames
         THEN [exc |-> NewError("IncludePathNotFound"), val |-> {}]
         ELSE [exc |-> PyException("AttributeError"), val |-> {}]
    ELSE IF {"is_to_one_relationship", "get_relative_id", "get_relative_ids"}
            \subseteq SerializerAttributes
    THEN IncludeIdsFrom(st, resources, relname, i + 1,
             ids \cup {st[resources[i].id].rel[k] : k \in 1..Len(st[resources[i].id].rel)})
    ELSE [exc |-> PyException("AttributeError"), val |-> {}]

\* BulkSession.fetch_includes: the walk along one include path from step i on
RECURSIVE IncludesAlong(_, _, _, _, _, _, _)
IncludesAlong(a, st, log, curr_resources, include_path, i, included) ==
    IF i > Len(include_path) THEN [exc |-> None, val |-> included, log |-> log]
    ELSE With(IncludeIdsFrom(st, curr_resources, include_path[i], 1, {}), LAMBDA ids :
           IF ids.exc # None THEN [exc |-> ids.exc, val |-> <<>>, log |-> log]
           ELSE With(BulkGetMany(a, st, log, SetToSeq(ids.val)), LAMBDA r :
                  IF r.exc # None THEN [exc |-> r.exc, val |-> <<>>, log |-> r.log]
                  ELSE IncludesAlong(a, st, r.log, Resources(r.val), include_path,
                                     i + 1, DictUpdate(included, r.val))))

\* BulkSession.fetch_includes: the loop over the include paths
RECURSIVE FetchIncludesFrom(_, _, _, _, _, _, _)
FetchIncludesFrom(a, st, log, resources, include_paths, p, included) ==
    IF p > Len(include_paths) THEN [exc |-> None, val |-> included, log |-> log]
    ELSE With(IncludesAlong(a, st, log, resources, include_paths[p], 1, included),
           LAMBDA r :
             IF r.exc # None THEN r
             ELSE FetchIncludesFrom(a, st, r.log, resources, include_paths, p + 1, r.val))

\* jsonapi.base.database.BulkSession.fetch_includes(resources, include_paths)
fetch_includes(a, st, log, resources, include_paths) ==
    FetchIncludesFrom(a, st, log, resources, include_paths, 1, <<>>)

(***************************************************************************)
(* The verb handlers.  "respond" is logged where a handler starts to build *)
(* its response.                                                           *)
(***************************************************************************)
\* RelationshipHandler: the lines "Build the response" with build_body()
RelationshipRespond(ctx) ==
    With(serialize_relationship(ctx.h.mem), LAMBDA body :
        IF body.exc # None
        THEN Raise([Logged(ctx, "respond", <<>>) EXCEPT !.h.response.status_code = 200],
                   body.exc)
        ELSE [Logged(ctx, "respond", <<>>) EXCEPT !.h.response.status_code = 200,
                                                  !.h.response.body = body.val])

\* RelationshipHandler.get
RelationshipGet(ctx) == RelationshipRespond(ctx)


\* RelationshipHandler.post reading and validating the body before it looks at
\* the relationship
RelationshipPostBodyFirst(a, ctx, rq) ==
    IF assert_relationship_object(rq.body) # None
    THEN Raise(ctx, NewError("InvalidDocument"))
    ELSE IF ~ToMany(ctx.h.real_typename, ctx.h.relname)
    THEN Raise(ctx, NewError("MethodNotAllowed"))
    ELSE With(extend_relationship(a, ctx, ctx.h.real_typename, ctx.h.relname,
                                  rq.body, rq.b), LAMBDA c :
           IF c.exc # None THEN c
           ELSE RelationshipRespond(SessionCommit(SessionSave(c))))

\* RelationshipHandler.post
RelationshipPost(a, ctx, rq) ==
    IF ~ToMany(ctx.h.real_typename, ctx.h.relname)
    THEN Raise(ctx, NewError("MethodNotAllowed"))
    ELSE IF assert_relationship_object(rq.body) # None
    THEN Raise(ctx, NewError("InvalidDocument"))
    ELSE With(extend_relationship(a, ctx, ctx.h.real_typename, ctx.h.relname,
                                  rq.body, rq.b), LAMBDA c :
           IF c.exc # None THEN c
           ELSE RelationshipRespond(SessionCommit(SessionSave(c))))

\* RelationshipHandler.patch
RelationshipPatch(a, ctx, rq) ==
    IF assert_relationship_object(rq.body) # None
    THEN Raise(ctx, NewError("InvalidDocument"))
    ELSE With(update_relationship(a, ctx, ctx.h.real_typename, ctx.h.relname,
                                  rq.body, rq.b), LAMBDA c :
           IF c.exc # None THEN c
           ELSE RelationshipRespond(SessionCommit(SessionSave(c))))

\* RelationshipHandler.delete
RelationshipDelete(ctx, rq) ==
    With(clear_relationship(ctx, ctx.h.relname, rq.b), LAMBDA c :
        IF c.exc # None THEN c
        ELSE RelationshipRespond(SessionCommit(SessionSave(c))))

\* RelatedHandler.get
RelatedGet(a, ctx, rq) ==
    With(get_relatives(a, ctx.st, ctx.log, ctx.h.resource, << <<ctx.h.relname>> >>),
      LAMBDA r1 :
        IF r1.exc # None THEN Raise([ctx EXCEPT !.log = r1.log], r1.exc)
        ELSE With(get_relatives(a, ctx.st, r1.log, Resources(r1.val), rq.include),
          LAMBDA r2 :
            IF r2.exc # None THEN Raise([ctx EXCEPT !.log = r2.log], r2.exc)
            ELSE [Logged([ctx EXCEPT !.log = r2.log], "respond", <<>>) EXCEPT
                     !.h.response.status_code = 200,
                     !.h.response.body = [data |-> Keys(r1.val),
                                          included |-> Keys(r2.val)]]))

\* the response document of the asyncio ResourceHandler
ResourceRespond(ctx, included) ==
    With(serialize_resource(ctx.h.resource[1].id, ctx.h.mem), LAMBDA data :
        IF data.exc # None
        THEN Raise([Logged(ctx, "respond", <<>>) EXCEPT !.h.response.status_code = 200],
                   data.exc)
        ELSE [Logged(ctx, "respond", <<>>) EXCEPT
                 !.h.response.status_code = 200,
                 !.h.response.body = [data |-> data.val, included |-> included]])

\* jsonapi.asyncio.handler.resource.ResourceHandler.get
ResourceGet(a, ctx, rq) ==
    With(get_relatives(a, ctx.st, ctx.log, ctx.h.resource, rq.include), LAMBDA inc :
        IF inc.exc # None THEN Raise([ctx EXCEPT !.log = inc.log], inc.exc)
        ELSE ResourceRespond([ctx EXCEPT !.log = inc.log], Keys(inc.val)))

\* assert_resource_object on the "data" member of the body
assert_resource_object(doc) ==
    IF doc.kind = "nodata" THEN NewError("InvalidDocument")
    ELSE IF \E k \in 1..Len(doc.rels) : assert_relationship_object(doc.rels[k].obj) # None
    THEN NewError("InvalidDocument")
    ELSE None

\* ResourceHandler.patch saving and committing before it validates and updates
ResourcePatchSavingFirst(a, ctx, rq) ==
    IF rq.body.kind = "notjson" THEN Raise(ctx, PyException("AttributeError"))
    ELSE IF assert_resource_object(rq.body) # None
    THEN Raise(SessionCommit(SessionSave(ctx)), NewError("InvalidDocument"))
    ELSE With(update_resource(a, SessionCommit(SessionSave(ctx)), rq.body), LAMBDA c :
           IF c.exc # None THEN c
           ELSE ResourceRespond(c, {}))

\* jsonapi.asyncio.handler.resource.ResourceHandler.patch
ResourcePatch(a, ctx, rq) ==
    \* request.json is None, and None has no get
    IF rq.body.kind = "notjson" THEN Raise(ctx, PyException("AttributeError"))
    ELSE IF assert_resource_object(rq.body) # None
    THEN Raise(ctx, NewError("InvalidDocument"))
    ELSE With(update_resource(a, ctx, rq.body), LAMBDA c :
           IF c.exc # None THEN c
           ELSE ResourceRespond(SessionCommit(SessionSave(c)), {}))

\* ResourceHandler.delete without its commit
ResourceDeleteUncommitted(ctx) ==
    [Logged(SessionDelete(ctx), "respond", <<>>) EXCEPT !.h.response.status_code = 204]

\* jsonapi.asyncio.handler.resource.ResourceHandler.delete
ResourceDelete(ctx) ==
    [Logged(SessionCommit(SessionDelete(ctx)), "respond", <<>>)
        EXCEPT !.h.response.status_code = 204]

\* BaseHandler.handle sending GET to the delete method
VerbOfGetDeletes(method) ==
    IF method = "get" THEN "delete"
    ELSE IF method \in {"head", "post", "patch", "delete"} THEN method ELSE ""

\* BaseHandler.handle: the method the request's verb selects ("" when it selects none)
VerbOf(method) ==
    IF method \in {"head", "get", "post", "patch", "delete"} THEN method ELSE ""

\* handler.handle(): BaseHandler.handle and the verb methods each class overrides
handle(a, ctx, rq) ==
    LET verb == VerbOf(rq.method)
        kind == ctx.h.kind
    IN  CASE kind = "relationships" /\ verb = "get" -> RelationshipGet(ctx)
          [] kind = "relationships" /\ verb = "post" -> RelationshipPost(a, ctx, rq)
          [] kind = "relationships" /\ verb = "patch" -> RelationshipPatch(a, ctx, rq)
          [] kind = "relationships" /\ verb = "delete" -> RelationshipDelete(ctx, rq)
          [] kind = "related" /\ verb = "get" -> RelatedGet(a, ctx, rq)
          [] kind = "resource" /\ verb = "get" -> ResourceGet(a, ctx, rq)
          [] kind = "resource" /\ verb = "patch" -> ResourcePatch(a, ctx, rq)
          [] kind = "resource" /\ verb = "delete" -> ResourceDelete(ctx)
          [] OTHER -> Raise(ctx, NewError("MethodNotAllowed"))

(***************************************************************************)
(* The inputs a verb handler reads from the request: the include paths,    *)
(* the body and the behaviour b of the relationship's accessor.            *)
(***************************************************************************)
Unread == [kind |-> "unread", ids |-> <<>>]

\* the relationship objects inside the resource objects studied
PatchLinkages ==
    {[kind |-> "nodata", ids |-> <<>>], [kind |-> "invalid", ids |-> <<>>],
     [kind |-> "null", ids |-> <<>>], [kind |-> "one", ids |-> <<P1>>],
     [kind |-> "one", ids |-> <<U1>>], [kind |-> "one", ids |-> <<U2>>],
     [kind |-> "many", ids |-> <<>>], [kind |-> "many", ids |-> <<P1>>],
     [kind |-> "many", ids |-> <<P1, P1>>], [kind |-> "many", ids |-> <<P1, P2>>]}

\* the attributes objects: up to n members with distinct names, in the body's order
AttributesObjects(typename, n) ==
    LET names == SchemaAttributes(typename) \cup {"nope"}
        members == {[name |-> m, b |-> b] : m \in names, b \in AttributeBehaviours}
    IN  {q \in SeqsUpTo(members, n) :
            \A i, j \in 1..Len(q) : i # j => q[i].name # q[j].name}

\* the relationships objects: no member, or one member
RelationshipsObjects(typename) ==
    {<<>>} \cup {<<[name |-> m, b |-> b, obj |-> o]>> :
                    m \in SchemaRelationships(typename), b \in Behaviours,
                    o \in PatchLinkages}

\* the bodies of a PATCH on the resource <<typename, id>>
ResourceDocuments(typename, id) ==
    {[kind |-> k, type |-> typename, id |-> id, attrs |-> <<>>, rels |-> <<>>] :
        k \in {"notjson", "nodata"}}
    \cup {[kind |-> "object", type |-> t, id |-> i, attrs |-> <<>>, rels |-> <<>>] :
        t \in Typenames, i \in ResourceIds \cup {""}}
    \cup {d \in {[kind |-> "object", type |-> typename, id |-> id,
                   attrs |-> at, rels |-> rl] :
                     at \in AttributesObjects(typename, MaxFields),
                     rl \in RelationshipsObjects(typename)} :
             Len(d.attrs) + Len(d.rels) <= MaxFields}

NoInput == [include |-> <<>>, body |-> Unread, b |-> "ok"]

\* what the verb handler of (kind, method) reads
InputsFor(h, method) ==
    CASE h.kind \in {"resource", "related"} /\ method = "get" ->
            {[NoInput EXCEPT !.include = inc] : inc \in IncludeLists}
      [] h.kind = "resource" /\ method = "patch" ->
            {[NoInput EXCEPT !.body = d] : d \in ResourceDocuments(h.typename, h.resource_id)}
      [] h.kind = "relationships" /\ method \in {"post", "patch"} ->
            {[NoInput EXCEPT !.body = o, !.b = b] : o \in RelationshipObjects, b \in Behaviours}
      [] h.kind = "relationships" /\ method = "delete" ->
            {[NoInput EXCEPT !.b = b] : b \in Behaviours}
      [] OTHER -> {NoInput}

(***************************************************************************)
(* API.handle_request, one action per statement of its try block and per   *)
(* clause that ends it.                                                    *)
(***************************************************************************)
NoResult == [kind |-> "none", response |-> NewResponse, exc |-> None]

NoRequest == [method |-> "", path |-> <<>>, ctype |-> "", include |-> <<>>,
              body |-> Unread, b |-> "ok"]

NoFunction == [resolver |-> "", resources |-> <<>>, paths |-> <<>>]

NoOutcome == [exc |-> None, val |-> <<>>, log |-> <<>>]

Init ==
    /\ api \in {"base", "asyncio"}
    /\ debug \in BOOLEAN
    /\ store \in Graphs
    /\ pc = "idle"
    /\ req = NoRequest
    /\ handler = NoHandler
    /\ exc = None
    /\ calls = <<>>
    /\ trace = <<>>
    /\ result = NoResult
    /\ fin = NoFunction
    /\ fout = NoOutcome

\* a request arrives: handle_request(request) is called
Receive ==
    /\ pc = "idle"
    /\ \E m \in Methods, p \in PathsOf(api), ct \in ContentTypes :
          req' = [NoRequest EXCEPT !.method = m, !.path = p, !.ctype = ct]
    /\ pc' = "find"
    /\ UNCHANGED <<api, debug, store, handler, exc, calls, trace, result, fin, fout>>

\* HandlerType = self._find_handler(request)
FindHandler ==
    /\ pc = "find"
    /\ LET f == find_handler(req.path)
       IN  /\ exc' = f.exc
           /\ handler' = [NoHandler EXCEPT !.kind = f.kind,
                             !.typename = IF f.exc = None THEN f.args.type ELSE "",
                             !.resource_id = IF f.exc = None THEN f.args.id ELSE "",
                             !.relname = IF f.exc = None THEN f.args.relname ELSE ""]
           /\ pc' = IF f.exc = None THEN "construct" ELSE "except"
    /\ trace' = Append(trace, "find")
    /\ UNCHANGED <<api, debug, store, req, calls, result, fin, fout>>

\* handler = HandlerType(api=self, db=self._db.session(), request=request)
Construct ==
    /\ pc = "construct"
    /\ LET c == construct(api, handler.kind,
                          [type |-> handler.typename, id |-> handler.resource_id,
                           relname |-> handler.relname])
       IN  /\ exc' = c.exc
           /\ handler' = IF c.exc = None THEN c.h ELSE handler
           /\ pc' = IF c.exc = None THEN "prepare" ELSE "except"
    /\ trace' = Append(trace, "construct")
    /\ UNCHANGED <<api, debug, store, req, calls, result, fin, fout>>

\* handle_request going on to the verb handler whatever prepare() did
AfterPrepareAlways(e) == "handle"

\* where handle_request goes after handler.prepare()
AfterPrepare(e) == IF e = None THEN "handle" ELSE "except"

\* the state handler.prepare() leaves
Prepared(c) ==
    /\ exc' = c.exc
    /\ handler' = c.h
    /\ calls' = c.log
    /\ pc' = AfterPrepare(c.exc)
    /\ trace' = Append(trace, IF c.exc = None THEN "prepare" ELSE "prepare raised")

\* handler.prepare()
Prepare ==
    /\ pc = "prepare"
    /\ Prepared(prepare(api, Ctx(handler, calls, store), req))
    /\ UNCHANGED <<api, debug, store, req, result, fin, fout>>

\* the state handler.handle() leaves, having read the inputs inp
Handled(inp, c) ==
    /\ req' = [req EXCEPT !.include = inp.include, !.body = inp.body, !.b = inp.b]
    /\ exc' = c.exc
    /\ handler' = c.h
    /\ calls' = c.log
    /\ store' = c.st
    /\ pc' = IF c.exc = None THEN "return" ELSE "except"

\* handler.handle()
Handle ==
    /\ pc = "handle"
    /\ \E inp \in InputsFor(handler, req.method) :
          Handled(inp, handle(api, Ctx(handler, calls, store),
                              [req EXCEPT !.include = inp.include, !.body = inp.body,
                                          !.b = inp.b]))
    /\ trace' = Append(trace, "handle")
    /\ UNCHANGED <<api, debug, result, fin, fout>>

\* an except clause that takes every exception
CaughtEverything(e) == TRUE

\* the clause "except (errors.Error, errors.ErrorList)" takes the exception
Caught(e) == IsError(e) \/ IsErrorList(e)

\* except (errors.Error, errors.ErrorList) as err
ExceptError ==
    /\ pc = "except"
    /\ Caught(exc)
    /\ result' = IF debug THEN [NoResult EXCEPT !.kind = "raised", !.exc = exc]
                 ELSE With(error_to_response(exc), LAMBDA r :
                        IF r.exc # None
                        THEN [NoResult EXCEPT !.kind = "raised", !.exc = r.exc]
                        ELSE [NoResult EXCEPT !.kind = "response", !.response = r.val])
    /\ pc' = "done"
    /\ trace' = Append(trace, "except")
    /\ UNCHANGED <<api, debug, store, req, handler, exc, calls, fin, fout>>

\* except Exception as err: raise
ExceptException ==
    /\ pc = "except"
    /\ ~Caught(exc)
    /\ result' = [NoResult EXCEPT !.kind = "raised", !.exc = exc]
    /\ pc' = "done"
    /\ trace' = Append(trace, "except")
    /\ UNCHANGED <<api, debug, store, req, handler, exc, calls, fin, fout>>

\* else: return handler.response
Return ==
    /\ pc = "return"
    /\ result' = [NoResult EXCEPT !.kind = "response", !.response = handler.response]
    /\ pc' = "done"
    /\ trace' = Append(trace, "return")
    /\ UNCHANGED <<api, debug, store, req, handler, exc, calls, fin, fout>>

Next ==
    \/ Receive
    \/ FindHandler
    \/ Construct
    \/ Prepare
    \/ Handle
    \/ ExceptError
    \/ ExceptException
    \/ Return

Spec == Init /\ [][Next]_vars

(***************************************************************************)
(* The include resolvers on their own: the argument is drawn at the start, *)
(* Resolve calls the resolver on a new session.                            *)
(***************************************************************************)
\* the resource objects a caller holds for a sequence of stored identifiers
Loaded(ids) == [k \in 1..Len(ids) |-> [id |-> ids[k], ref |-> 0]]

RootLists == {<<>>, <<U1>>, <<P1>>, <<P1, P2>>, <<U1, U2>>, <<U1, P1>>}

InitInc ==
    /\ api \in {"base", "asyncio"}
    /\ debug = FALSE
    /\ store \in Graphs
    /\ pc = "function"
    /\ req = NoRequest
    /\ handler = NoHandler
    /\ exc = None
    /\ calls = <<>>
    /\ trace = <<>>
    /\ result = NoResult
    /\ \E rs \in {q \in RootLists : \A k \in 1..Len(q) : store[q[k]].exists},
          ps \in IncludeLists :
          fin = [resolver |-> IF api = "base" THEN "fetch_includes" ELSE "get_relatives",
                 resources |-> Loaded(rs), paths |-> ps]
    /\ fout = NoOutcome

\* result = db.fetch_includes(resources, paths) / db.get_relatives(resources, paths)
Resolve ==
    /\ pc = "function"
    /\ fout' = IF fin.resolver = "fetch_includes"
               THEN fetch_includes(api, store, <<>>, fin.resources, fin.paths)
               ELSE get_relatives(api, store, <<>>, fin.resources, fin.paths)
    /\ pc' = "done"
    /\ UNCHANGED <<api, debug, store, req, handler, exc, calls, trace, result, fin>>

NextInc == Resolve

SpecInc == InitInc /\ [][NextInc]_vars


(***************************************************************************)
(* The session adapters on their own: a caller makes calls on one session  *)
(* of the sqlalchemy, the mongoengine or the motorengine adapter.  fin is  *)
(* the session object: the adapter and the resources staged for saving and *)
(* for deletion (the unit of work of the sqlalchemy session, the           *)
(* dictionaries _saved_resources and _deleted_resources of motorengine).   *)
(* fout is the last call and its outcome.                                  *)
(***************************************************************************)
\* the number of identifiers in the list given to get_many
MaxIdentifiers == 2

Adapters == {"sqlalchemy", "mongoengine", "motorengine"}

\* the API class an adapter's Session.get behaves like in the pipeline above
ApiOf(adapter) == IF adapter = "sqlalchemy" THEN "base" ELSE "asyncio"

\* the resources the caller has loaded and modified in memory
Held == {U1, P1}

\* the state of the resource object the caller saves: every attribute was set
Changed(rec) == [rec EXCEPT !.exists = TRUE, !.attrs = [n \in DOMAIN rec.attrs |-> "v1"]]

\* resource.save() / resource.delete() of the document classes, and the flush
\* of the sqlalchemy unit of work: the backend after the writes
Written(st, saved, deleted) ==
    [i \in DOMAIN st |->
        IF i \in deleted THEN [st[i] EXCEPT !.exists = FALSE]
        ELSE IF i \in saved THEN Changed(st[i])
        ELSE st[i]]

\* Session.save(resources) of the adapter: the session and the backend it leaves
AdapterSave(s, st, ids) ==
    IF s.adapter = "mongoengine"
    THEN [s |-> s, st |-> Written(st, ids, {})]
    ELSE [s |-> [s EXCEPT !.saved = @ \cup ids, !.deleted = @ \ ids], st |-> st]

\* Session.delete(resources) of the adapter
AdapterDelete(s, st, ids) ==
    IF s.adapter = "mongoengine"
    THEN [s |-> s, st |-> Written(st, {}, ids)]
    ELSE [s |-> [s EXCEPT !.deleted = @ \cup ids, !.saved = @ \ ids], st |-> st]

\* Session.commit() of the adapter: motorengine keeps its dictionaries, the
\* sqlalchemy session starts a new unit of work, mongoengine does nothing
AdapterCommit(s, st) ==
    CASE s.adapter = "mongoengine" -> [s |-> s, st |-> st]
      [] s.adapter = "motorengine" -> [s |-> s, st |-> Written(st, s.saved, s.deleted)]
      [] OTHER -> [s |-> [s EXCEPT !.saved = {}, !.deleted = {}],
                   st |-> Written(st, s.saved, s.deleted)]

\* the end of the run of identifiers of one type that starts at position i
\* (itertools.groupby groups consecutive identifiers)
RECURSIVE GroupEnd(_, _)
GroupEnd(identifiers, i) ==
    IF i < Len(identifiers) /\ identifiers[i + 1][1] = identifiers[i][1]
    THEN GroupEnd(identifiers, i + 1)
    ELSE i

\* resource_class.objects().in_bulk(resource_ids): the stored documents among ids
InBulk(st, ids) ==
    LET found == SelectSeq(ids, LAMBDA i : st[i].exists)
    IN  DictUpdate(<<>>, [k \in 1..Len(found) |->
                             [id |-> found[k], res |-> <<[id |-> found[k], ref |-> 0]>>]])

\* jsonapi.mongoengine.database.Session.get_many from the group starting at i
RECURSIVE MongoengineGetManyFrom(_, _, _, _, _)
MongoengineGetManyFrom(st, identifiers, required, i, results) ==
    IF i > Len(identifiers) THEN [exc |-> None, val |-> results, log |-> <<>>]
    ELSE LET j == GroupEnd(identifiers, i)
             resource_ids == SubSeq(identifiers, i, j)
             resources == InBulk(st, resource_ids)
             not_found == Keys(resources) \ {resource_ids[k] : k \in 1..Len(resource_ids)}
         IN  IF required /\ not_found # {}
             THEN [exc |-> NewError("ResourceNotFound"), val |-> <<>>, log |-> <<>>]
             ELSE MongoengineGetManyFrom(st, identifiers, required, j + 1,
                                         DictUpdate(results, resources))

\* Session.get(identifier, required) of the adapter
AdapterGet(adapter, st, identifier, required) ==
    SessionGet(ApiOf(adapter), st, <<>>, identifier, required)

\* Session.get_many(identifiers, required) of the adapter
AdapterGetMany(adapter, st, identifiers, required) ==
    IF adapter = "mongoengine"
    THEN MongoengineGetManyFrom(st, identifiers, required, 1, <<>>)
    ELSE SessionGetMany(ApiOf(adapter), st, <<>>, identifiers, required)

\* a call and its outcome; before, saved and deleted are the backend and the staged
\* resources the call found
NoCall == [op |-> "", ids |-> <<>>, required |-> FALSE, exc |-> None, val |-> <<>>,
           before |-> GraphEmpty, saved |-> {}, deleted |-> {}]

Called(op, ids, required, r) ==
    [op |-> op, ids |-> ids, required |-> required, exc |-> r.exc, val |-> r.val,
     before |-> store, saved |-> fin.saved, deleted |-> fin.deleted]

InitDb ==
    /\ api = "base"
    /\ debug = FALSE
    /\ store \in Graphs
    /\ pc = "session"
    /\ req = NoRequest
    /\ handler = NoHandler
    /\ exc = None
    /\ calls = <<>>
    /\ trace = <<>>
    /\ result = NoResult
    /\ \E a \in Adapters : fin = [adapter |-> a, saved |-> {}, deleted |-> {}]
    /\ fout = [NoCall EXCEPT !.before = store]

\* resource = session.get(identifier, required)
DbGet ==
    /\ pc = "session"
    /\ \E identifier \in AllIds, required \in BOOLEAN :
          fout' = Called("get", <<identifier>>, required,
                         AdapterGet(fin.adapter, store, identifier, required))
    /\ UNCHANGED <<api, debug, store, pc, req, handler, exc, calls, trace, result, fin>>

\* resources = session.get_many(identifiers, required)
DbGetMany ==
    /\ pc = "session"
    /\ \E identifiers \in SeqsUpTo(AllIds, MaxIdentifiers), required \in BOOLEAN :
          fout' = Called("get_many", identifiers, required,
                         AdapterGetMany(fin.adapter, store, identifiers, required))
    /\ UNCHANGED <<api, debug, store, pc, req, handler, exc, calls, trace, result, fin>>

\* session.save([resource])
DbSave ==
    /\ pc = "session"
    /\ \E i \in Held :
          LET r == AdapterSave(fin, store, {i})
          IN  /\ fin' = r.s
              /\ store' = r.st
              /\ fout' = Called("save", <<i>>, FALSE, NoCall)
    /\ UNCHANGED <<api, debug, pc, req, handler, exc, calls, trace, result>>

\* session.delete([resource])
DbDelete ==
    /\ pc = "session"
    /\ \E i \in Held :
          LET r == AdapterDelete(fin, store, {i})
          IN  /\ fin' = r.s
              /\ store' = r.st
              /\ fout' = Called("delete", <<i>>, FALSE, NoCall)
    /\ UNCHANGED <<api, debug, pc, req, handler, exc, calls, trace, result>>

\* session.commit()
DbCommit ==
    /\ pc = "session"
    /\ LET r == AdapterCommit(fin, store)
       IN  /\ fin' = r.s
           /\ store' = r.st
    /\ fout' = Called("commit", <<>>, FALSE, NoCall)
    /\ UNCHANGED <<api, debug, pc, req, handler, exc, calls, trace, result>>

NextDb ==
    \/ DbGet
    \/ DbGetMany
    \/ DbSave
    \/ DbDelete
    \/ DbCommit

SpecDb == InitDb /\ [][NextDb]_vars


(***************************************************************************)
(* jsonapi.base.serializer.Serializer.serialize_resource, called on the    *)
(* schema that Schema.find_fields builds from the markers of a resource    *)
(* class.                                                                  *)
(***************************************************************************)
MaxDeclared == 2
MaxListed == 2

\* field names as the sequences of their code points: "B", "a", "aB"
SchemaNames == {<<66>>, <<97>>, <<97, 66>>}

\* str.__lt__: the first differing code point decides, a proper prefix is smaller
RECURSIVE StrLess(_, _)
StrLess(s, t) ==
    IF t = <<>> THEN FALSE
    ELSE IF s = <<>> THEN TRUE
    ELSE IF s[1] # t[1] THEN s[1] < t[1]
    ELSE StrLess(Tail(s), Tail(t))

\* iterating a dictionary itself: the keys in the dictionary's own order
Unsorted(names) == names

RECURSIVE Insert(_, _)
Insert(q, x) ==
    IF q = <<>> THEN <<x>>
    ELSE IF StrLess(x, q[1]) THEN <<x>> \o q
    ELSE <<q[1]>> \o Insert(Tail(q), x)

\* sorted(names)
RECURSIVE sorted(_)
sorted(names) ==
    IF names = <<>> THEN <<>>
    ELSE Insert(sorted(SubSeq(names, 1, Len(names) - 1)), names[Len(names)])

\* the markers of a resource class; linked: the relationship has a relative
Markers ==
    {[name |-> n, kind |-> "attribute", linked |-> FALSE] : n \in SchemaNames}
    \cup {[name |-> n, kind |-> "relationship", linked |-> l] :
            n \in SchemaNames, l \in BOOLEAN}

\* vars(resource_class).items(): the markers in some order, no name twice in a kind
Declarations ==
    {q \in SeqsUpTo(Markers, MaxDeclared) :
        \A i, j \in 1..Len(q) :
            i # j => q[i].name # q[j].name \/ q[i].kind # q[j].kind}

\* Schema.find_fields: the keys of schema.attributes or schema.relationships in
\* the order of their insertion
RECURSIVE find_fields(_, _)
find_fields(declared, kind) ==
    IF declared = <<>> THEN <<>>
    ELSE With(find_fields(SubSeq(declared, 1, Len(declared) - 1), kind), LAMBDA keys :
           IF declared[Len(declared)].kind # kind
              \/ \E k \in 1..Len(keys) : keys[k] = declared[Len(declared)].name
           THEN keys
           ELSE Append(keys, declared[Len(declared)].name))

\* the fields argument: None, or a list of names
FieldsArguments ==
    {[given |-> FALSE, names |-> <<>>]}
    \cup {[given |-> TRUE, names |-> q] : q \in SeqsUpTo(SchemaNames, MaxListed)}

\* "fields is None or name in fields"
Included(fields, name) ==
    ~fields.given \/ \E k \in 1..Len(fields.names) : fields.names[k] = name

\* Serializer.serialize_attributes: the keys of the attributes object
serialize_attributes(declared, fields) ==
    SelectSeq(sorted(find_fields(declared, "attribute")),
              LAMBDA name : Included(fields, name))

\* Serializer.serialize_relationships: the keys of the relationships object;
\* serialize_relationship of a relationship with a relative calls
\* ensure_identifier_object with one argument
serialize_relationships(declared, fields) ==
    With(SelectSeq(sorted(find_fields(declared, "relationship")),
                   LAMBDA name : Included(fields, name)), LAMBDA keys :
        IF \E k \in 1..Len(keys), m \in 1..Len(declared) :
              /\ declared[m].kind = "relationship" /\ declared[m].name = keys[k]
              /\ declared[m].linked
        THEN [exc |-> ensure_identifier_object(<<"obj">>).exc, val |-> <<>>]
        ELSE [exc |-> None, val |-> keys])

NoKeys == [top |-> <<>>, attributes |-> <<>>, relationships |-> <<>>]

\* Serializer.serialize_resource: the keys of the resource object and of its
\* attributes and relationships objects, in the order of emission
SerializeResource(declared, fields) ==
    With(serialize_attributes(declared, fields), LAMBDA attributes :
      With(serialize_relationships(declared, fields), LAMBDA relationships :
        IF relationships.exc # None THEN [exc |-> relationships.exc, val |-> NoKeys]
        ELSE [exc |-> None,
              val |-> [top |-> <<"type", "id">>
                               \o (IF attributes # <<>> THEN <<"attributes">> ELSE <<>>)
                               \o (IF relationships.val # <<>> THEN <<"relationships">>
                                   ELSE <<>>),
                       attributes |-> attributes,
                       relationships |-> relationships.val]]))

NoSerialized ==
    [op |-> "", fields |-> [given |-> FALSE, names |-> <<>>], exc |-> None,
     val |-> NoKeys, twice |-> FALSE, order |-> <<>>,
     again |-> [exc |-> None, val |-> NoKeys]]

InitSer ==
    /\ api = "base"
    /\ debug = FALSE
    /\ store = GraphEmpty
    /\ pc = "serializer"
    /\ req = NoRequest
    /\ handler = NoHandler
    /\ exc = None
    /\ calls = <<>>
    /\ trace = <<>>
    /\ result = NoResult
    /\ \E declared \in Declarations : fin = [declared |-> declared]
    /\ fout = NoSerialized

\* serializer.serialize_resource(resource, fields)
SerSerialize ==
    /\ pc = "serializer" /\ fout.op = ""
    /\ \E fields \in FieldsArguments :
          With(SerializeResource(fin.declared, fields), LAMBDA r :
            fout' = [fout EXCEPT !.op = "serialize", !.fields = fields,
                                 !.exc = r.exc, !.val = r.val])
    /\ UNCHANGED <<api, debug, store, pc, req, handler, exc, calls, trace, result, fin>>

\* the same call once more on the unmodified resource, the dictionaries of the
\* schema holding the same markers in an order of their own
SerAgain ==
    /\ pc = "serializer" /\ fout.op = "serialize" /\ ~fout.twice
    /\ \E order \in Declarations :
          /\ Len(order) = Len(fin.declared)
          /\ {order[k] : k \in 1..Len(order)}
                = {fin.declared[k] : k \in 1..Len(fin.declared)}
          /\ fout' = [fout EXCEPT !.twice = TRUE, !.order = order,
                                  !.again = SerializeResource(order, fout.fields)]
    /\ UNCHANGED <<api, debug, store, pc, req, handler, exc, calls, trace, result, fin>>

NextSer ==
    \/ SerSerialize
    \/ SerAgain

SpecSer == InitSer /\ [][NextSer]_vars


(***************************************************************************)
(* Pagination: the page arguments of jsonapi.base.request.Request, the     *)
(* query of the sqlalchemy session, jsonapi.base.pagination.Pagination and *)
(* the GET of the collection endpoint that uses them. The collection holds *)
(* the resources 1..total in the active sort order; the request carries    *)
(* page[number] and page[size] and no other query argument.                *)
(***************************************************************************)
MaxTotal == 5
MaxPage == 3

\* the values of a query argument: absent, no integer, or the text of an integer
QueryArguments ==
    {[kind |-> "absent", n |-> 0], [kind |-> "text", n |-> 0]}
    \cup {[kind |-> "int", n |-> n] : n \in 0..MaxPage}

\* Request.japi_page_number and Request.japi_page_size: None when the argument is
\* absent, BadRequest when int() fails or the number is below 1
japi_page_argument(arg) ==
    IF arg.kind = "absent" THEN [exc |-> None, given |-> FALSE, n |-> 0]
    ELSE IF arg.kind = "text" \/ arg.n < 1
    THEN [exc |-> NewError("BadRequest"), given |-> FALSE, n |-> 0]
    ELSE [exc |-> None, given |-> TRUE, n |-> arg.n]

\* Request.japi_paginate: "japi_page_size is not None and japi_page_number is not None"
japi_paginate(rq) ==
    With(japi_page_argument(rq.size), LAMBDA size :
        IF size.exc # None THEN [exc |-> size.exc, val |-> FALSE]
        ELSE IF ~size.given THEN [exc |-> None, val |-> FALSE]
        ELSE With(japi_page_argument(rq.number), LAMBDA number :
               [exc |-> number.exc, val |-> number.given]))

\* Request.japi_page_limit (after japi_paginate returned)
japi_page_limit(rq, paginate) ==
    IF paginate THEN japi_page_argument(rq.size)
    ELSE [exc |-> None, given |-> FALSE, n |-> 0]

\* Request.japi_page_offset (after japi_paginate returned)
japi_page_offset(rq, paginate) ==
    IF paginate
    THEN [exc |-> None, given |-> TRUE,
          n |-> japi_page_argument(rq.size).n * (japi_page_argument(rq.number).n - 1)]
    ELSE [exc |-> None, given |-> FALSE, n |-> 0]

\* sqlalchemy Session.query: _build_query applies "if offset:" and "if limit:" to
\* the ordered query, and list(query) runs it
Query(total, limit, offset) ==
    LET skipped == IF offset.given /\ offset.n # 0 THEN offset.n ELSE 0
        last == IF limit.given /\ limit.n # 0 /\ skipped + limit.n < total
                THEN skipped + limit.n ELSE total
    IN  [k \in 1..(IF last > skipped THEN last - skipped ELSE 0) |-> skipped + k]

\* total_pages computed with floor division
total_pages_floor(total_resources, page_size) == total_resources \div page_size

\* Pagination.__init__: math.ceil(self.total_resources/self.page_size)
total_pages(total_resources, page_size) ==
    IF total_resources % page_size = 0 THEN total_resources \div page_size
    ELSE total_resources \div page_size + 1

\* Pagination._page_link: the uri of the request with the two page arguments
page_link(page_number, page_size) ==
    [path |-> "/User", number |-> page_number, size |-> page_size]

Item(key, value) == [key |-> key, value |-> value]

\* Pagination(request, total_resources) with json_meta and json_links, the
\* dictionaries as the sequences of their items
Pagination(rq, total_resources) ==
    With(japi_paginate(rq), LAMBDA paginate :
        IF paginate.exc # None THEN [exc |-> paginate.exc, meta |-> <<>>, links |-> <<>>]
        ELSE IF ~paginate.val
        THEN [exc |-> PyException("AssertionError"), meta |-> <<>>, links |-> <<>>]
        ELSE LET current_page == japi_page_argument(rq.number).n
                 page_size == japi_page_argument(rq.size).n
                 pages == total_pages(total_resources, page_size)
             IN  [exc |-> None,
                  meta |-> <<Item("total-pages", pages),
                             Item("total-resources", total_resources),
                             Item("page", current_page),
                             Item("page-size", page_size)>>,
                  links |-> <<Item("self", page_link(current_page, page_size)),
                              Item("first", page_link(1, page_size)),
                              Item("last", page_link(pages, page_size))>>
                            \o (IF current_page > 1
                                THEN <<Item("prev", page_link(current_page - 1, page_size))>>
                                ELSE <<>>)
                            \o (IF current_page < pages
                                THEN <<Item("next", page_link(current_page + 1, page_size))>>
                                ELSE <<>>)])

NoQuery == [limit |-> [exc |-> None, given |-> FALSE, n |-> 0],
            offset |-> [exc |-> None, given |-> FALSE, n |-> 0]]

\* CollectionHandler.get on a collection of resources without relatives: the
\* arguments of db.query and the response
CollectionGet(rq, total) ==
    With(japi_paginate(rq), LAMBDA paginate :
        IF paginate.exc # None
        THEN [exc |-> paginate.exc, query |-> NoQuery, response |-> NewResponse]
        ELSE With([limit |-> japi_page_limit(rq, paginate.val),
                   offset |-> japi_page_offset(rq, paginate.val)], LAMBDA query :
               With(IF paginate.val THEN Pagination(rq, Len(Query(total, NoQuery.limit,
                                                                 NoQuery.offset)))
                    ELSE [exc |-> None, meta |-> <<>>, links |-> <<>>], LAMBDA pagination :
                 IF pagination.exc # None
                 THEN [exc |-> pagination.exc, query |-> query, response |-> NewResponse]
                 ELSE [exc |-> None, query |-> query,
                       response |-> [NewResponse EXCEPT
                           !.status_code = 200,
                           !.body = [data |-> Query(total, query.limit, query.offset),
                                     included |-> <<>>,
                                     meta |-> pagination.meta,
                                     links |-> pagination.links]]])))

NoPage == [op |-> "", exc |-> None, query |-> NoQuery, meta |-> <<>>, links |-> <<>>,
           body |-> [kind |-> "", type |-> ""]]

InitPage ==
    /\ api = "base"
    /\ debug \in BOOLEAN
    /\ store = GraphEmpty
    /\ pc = "request"
    /\ req = NoRequest
    /\ handler = NoHandler
    /\ exc = None
    /\ calls = <<>>
    /\ trace = <<>>
    /\ result = NoResult
    /\ \E total \in 0..MaxTotal, number \in QueryArguments, size \in QueryArguments :
          fin = [total |-> total, number |-> number, size |-> size]
    /\ fout = NoPage

\* API.handle_request of GET /User?page[number]=..&page[size]=.. with the JSON API
\* content type: the handler is built, prepare() passes, get() runs, and the except
\* clauses and the else clause end the request
PgHandleRequest ==
    /\ pc = "request"
    /\ With(construct(api, "collection", [type |-> "User", id |-> "", relname |-> ""]),
            LAMBDA c :
         With(IF c.exc # None
              THEN [exc |-> c.exc, query |-> NoQuery, response |-> NewResponse]
              ELSE CollectionGet(fin, fin.total), LAMBDA r :
           /\ exc' = r.exc
           /\ fout' = [NoPage EXCEPT !.op = "handle_request", !.exc = r.exc,
                                     !.query = r.query]
           /\ result' =
                IF r.exc = None
                THEN [NoResult EXCEPT !.kind = "response", !.response = r.response]
                ELSE IF ~Caught(r.exc) \/ debug
                THEN [NoResult EXCEPT !.kind = "raised", !.exc = r.exc]
                ELSE With(error_to_response(r.exc), LAMBDA e :
                       IF e.exc # None
                       THEN [NoResult EXCEPT !.kind = "raised", !.exc = e.exc]
                       ELSE [NoResult EXCEPT !.kind = "response", !.response = e.val])))
    /\ pc' = "done"
    /\ UNCHANGED <<api, debug, store, req, handler, calls, trace, fin>>

\* pagination = Pagination(request, total_resources), then json_meta and json_links
PgPagination ==
    /\ pc = "request"
    /\ With(Pagination(fin, fin.total), LAMBDA p :
         fout' = [NoPage EXCEPT !.op = "pagination", !.exc = p.exc,
                                !.meta = p.meta, !.links = p.links])
    /\ pc' = "done"
    /\ UNCHANGED <<api, debug, store, req, handler, exc, calls, trace, result, fin>>

\* the functions jsonapi.base.validators binds
ValidatorsNames ==
    {"assert_resource_object", "assert_attributes_object", "assert_relationships_object",
     "assert_relationship_object", "assert_resource_linkage",
     "assert_resource_identifier_object", "assert_links_object", "assert_link_object",
     "assert_meta_object"}

\* the bodies of a POST on /User: no JSON, or a document whose data is a resource
\* object of some type
PostBodies ==
    {[kind |-> "notjson", type |-> ""]}
    \cup {[kind |-> "object", type |-> t] : t \in Typenames \cup {"Nope"}}

\* CollectionHandler.post up to its first statement that raises on every body:
\* self.request.json.get("data", dict()), then validators.assert_resource_document;
\* db.save and db.commit come after it
CollectionPost(body) ==
    IF body.kind = "notjson"
    THEN [exc |-> PyException("AttributeError"), saved |-> FALSE, committed |-> FALSE]
    ELSE IF "assert_resource_document" \notin ValidatorsNames
    THEN [exc |-> PyException("AttributeError"), saved |-> FALSE, committed |-> FALSE]
    ELSE IF "create_resource" \notin SerializerAttributes
    THEN [exc |-> PyException("AttributeError"), saved |-> FALSE, committed |-> FALSE]
    ELSE [exc |-> None, saved |-> TRUE, committed |-> TRUE]

\* API.handle_request of POST /User with the JSON API content type
PgPost ==
    /\ pc = "request"
    /\ \E body \in PostBodies :
         With(construct(api, "collection", [type |-> "User", id |-> "", relname |-> ""]),
              LAMBDA c :
           With(IF c.exc # None
                THEN [exc |-> c.exc, saved |-> FALSE, committed |-> FALSE]
                ELSE CollectionPost(body), LAMBDA r :
             /\ exc' = r.exc
             /\ fout' = [NoPage EXCEPT !.op = "post", !.exc = r.exc, !.body = body]
             /\ calls' = (IF r.saved THEN <<Call("save", <<>>)>> ELSE <<>>)
                            \o (IF r.committed THEN <<Call("commit", <<>>)>> ELSE <<>>)
             /\ result' =
                  IF r.exc = None
                  THEN [NoResult EXCEPT !.kind = "response",
                                        !.response = [NewResponse EXCEPT
                                                         !.status_code = 201,
                                                         !.location = TRUE]]
                  ELSE IF ~Caught(r.exc) \/ debug
                  THEN [NoResult EXCEPT !.kind = "raised", !.exc = r.exc]
                  ELSE With(error_to_response(r.exc), LAMBDA e :
                         IF e.exc # None
                         THEN [NoResult EXCEPT !.kind = "raised", !.exc = e.exc]
                         ELSE [NoResult EXCEPT !.kind = "response", !.response = e.val])))
    /\ pc' = "done"
    /\ UNCHANGED <<api, debug, store, req, handler, trace, fin>>

NextPage ==
    \/ PgPost
    \/ PgHandleRequest
    \/ PgPagination

SpecPage == InitPage /\ [][NextPage]_vars


(***************************************************************************)
(* The registry of jsonapi.base.api.API: add_type and the lookups. A       *)
(* dictionary is the sequence of its items [id, value] in insertion order. *)
(***************************************************************************)
MaxAddType == 3

\* the resource classes (Admin is a subclass of User) and the typenames of schemas
Classes == {"User", "Admin", "Post"}
SchemaTypenames == {"User", "Admin", "Post"}

\* the objects handed to get_typename: a resource class, or an instance of one
Objects == {[kind |-> k, cls |-> c] : k \in {"class", "instance"}, c \in Classes}

\* the dictionaries of API.__init__
NewRegistry ==
    [typenames |-> <<>>, schemas |-> <<>>, resource_classes |-> <<>>,
     serializers |-> <<>>, unserializers |-> <<>>]

\* d.get(key): [found, value]
DictGet(d, key) ==
    IF key \in Keys(d)
    THEN [found |-> TRUE, value |-> d[CHOOSE k \in 1..Len(d) : d[k].id = key].value]
    ELSE [found |-> FALSE, value |-> ""]

\* API.add_type(schema), schema = [resource_class, typename]
add_type(reg, schema) ==
    [typenames |-> DictSet(reg.typenames,
                           [id |-> schema.resource_class, value |-> schema.typename]),
     schemas |-> DictSet(reg.schemas, [id |-> schema.typename, value |-> schema]),
     resource_classes |-> DictSet(reg.resource_classes,
                                  [id |-> schema.typename, value |-> schema.resource_class]),
     serializers |-> DictSet(reg.serializers,
                             [id |-> schema.typename, value |-> schema]),
     unserializers |-> DictSet(reg.unserializers,
                               [id |-> schema.typename, value |-> schema])]

\* get_typename looking the object itself up only
get_typename_of_key(reg, o, default) ==
    IF o.kind = "class" /\ DictGet(reg.typenames, o.cls).found
    THEN [exc |-> None, val |-> DictGet(reg.typenames, o.cls).value]
    ELSE IF default.given THEN [exc |-> None, val |-> default.value]
    ELSE [exc |-> PyException("KeyError"), val |-> ""]

\* API.get_typename(o, default): "_typenames.get(o) or _typenames.get(type(o)) or
\* default"; only classes are keys, and the type of a class is no resource class
get_typename(reg, o, default) ==
    IF o.kind = "class" /\ DictGet(reg.typenames, o.cls).found
    THEN [exc |-> None, val |-> DictGet(reg.typenames, o.cls).value]
    ELSE IF o.kind = "instance" /\ DictGet(reg.typenames, o.cls).found
    THEN [exc |-> None, val |-> DictGet(reg.typenames, o.cls).value]
    ELSE IF default.given THEN [exc |-> None, val |-> default.value]
    ELSE [exc |-> PyException("KeyError"), val |-> ""]

\* API.get_schema, get_serializer, get_unserializer and get_resource_class without
\* a default: self._schemas[typename], ...; the value is the resource class behind it
get_registered(reg, which, typename) ==
    With(DictGet(reg[which], typename), LAMBDA hit :
        IF ~hit.found THEN [exc |-> PyException("KeyError"), val |-> ""]
        ELSE [exc |-> None,
              val |-> IF which = "resource_classes" THEN hit.value
                      ELSE hit.value.resource_class])

\* API.has_type(typename) on a registry
registry_has_type(reg, typename) == typename \in Keys(reg.schemas)

\* API.get_typenames(): list(self._typenames.values())
get_typenames(reg) == [k \in 1..Len(reg.typenames) |-> reg.typenames[k].value]

NoLookup == [op |-> "", o |-> [kind |-> "", cls |-> ""], typename |-> "",
             default |-> FALSE, exc |-> None, val |-> ""]

InitReg ==
    /\ api = "base"
    /\ debug = FALSE
    /\ store = GraphEmpty
    /\ pc = "registry"
    /\ req = NoRequest
    /\ handler = NoHandler
    /\ exc = None
    /\ calls = <<>>
    /\ trace = <<>>
    /\ result = NoResult
    /\ fin = [reg |-> NewRegistry, added |-> <<>>]
    /\ fout = NoLookup

\* api.add_type(Schema(resource_class, typename))
RegAddType ==
    /\ pc = "registry" /\ Len(fin.added) < MaxAddType
    /\ \E c \in Classes, t \in SchemaTypenames :
          With([resource_class |-> c, typename |-> t], LAMBDA schema :
            fin' = [reg |-> add_type(fin.reg, schema), added |-> Append(fin.added, schema)])
    /\ fout' = NoLookup
    /\ UNCHANGED <<api, debug, store, pc, req, handler, exc, calls, trace, result>>

\* api.get_typename(o) and api.get_typename(o, default)
RegGetTypename ==
    /\ pc = "registry"
    /\ \E o \in Objects, given \in BOOLEAN :
          With(get_typename(fin.reg, o, [given |-> given, value |-> "fallback"]), LAMBDA r :
            fout' = [NoLookup EXCEPT !.op = "get_typename", !.o = o, !.default = given,
                                     !.exc = r.exc, !.val = r.val])
    /\ UNCHANGED <<api, debug, store, pc, req, handler, exc, calls, trace, result, fin>>

\* api.get_schema(typename), get_serializer, get_unserializer, get_resource_class
RegGet ==
    /\ pc = "registry"
    /\ \E which \in {"schemas", "serializers", "unserializers", "resource_classes"},
          t \in SchemaTypenames :
          With(get_registered(fin.reg, which, t), LAMBDA r :
            fout' = [NoLookup EXCEPT !.op = which, !.typename = t,
                                     !.exc = r.exc, !.val = r.val])
    /\ UNCHANGED <<api, debug, store, pc, req, handler, exc, calls, trace, result, fin>>

NextReg ==
    \/ RegAddType
    \/ RegGetTypename
    \/ RegGet

SpecReg == InitReg /\ [][NextReg]_vars


(***************************************************************************)
(* jsonapi.base.validators on JSON values. A value is [json |-> "null"],   *)
(* [json |-> "str"], [json |-> "int"], an array [json, items] or an object *)
(* [json, keys, ...] with one field per member it may have; a source       *)
(* pointer is the sequence of its segments. The resource objects studied   *)
(* have no links and no meta member, the links objects no member.          *)
(***************************************************************************)
MaxItems == 2

IdentifierValues ==
    {[json |-> "object", keys |-> ks, type |-> [json |-> t], id |-> [json |-> i],
      meta |-> [json |-> m]] :
        ks \in SUBSET {"type", "id", "meta", "x"},
        t \in {"str", "int"}, i \in {"str", "int"}, m \in {"object", "str"}}

\* the items of the arrays studied
ListItems ==
    {[json |-> "str"]}
    \cup {v \in IdentifierValues :
            /\ v.keys \in {{"type", "id"}, {"type", "id", "meta"}, {"type"}}
            /\ v.id.json = "str" /\ v.meta.json = "object"}

LinkageValues ==
    {[json |-> "null"], [json |-> "str"]}
    \cup IdentifierValues
    \cup {[json |-> "array", items |-> q] : q \in SeqsUpTo(ListItems, MaxItems)}

RelationshipValues ==
    {[json |-> "str"]}
    \cup {[json |-> "object", keys |-> ks, links |-> [json |-> l], meta |-> [json |-> m],
           data |-> d] :
            ks \in SUBSET {"data", "links", "meta", "x"},
            l \in {"object", "str"}, m \in {"object", "str"}, d \in LinkageValues}

\* the relationships members studied: no object, no member, or the member author
RelationshipsValues ==
    {[json |-> "str"], [json |-> "object", members |-> <<>>]}
    \cup {[json |-> "object", members |-> <<[name |-> "author", value |-> r]>>] :
            r \in {v \in RelationshipValues :
                     /\ v.json = "object" => v.keys \in {{}, {"data"}, {"data", "x"}}
                     /\ v.json = "object" =>
                           /\ v.links.json = "object" /\ v.meta.json = "object"
                           /\ v.data \in {[json |-> "null"], [json |-> "str"]}}}

ResourceValues ==
    {[json |-> "str"]}
    \cup {[json |-> "object", keys |-> ks, type |-> [json |-> t], id |-> [json |-> i],
           attributes |-> [json |-> a], relationships |-> r] :
            ks \in SUBSET {"id", "type", "attributes", "relationships", "x"},
            t \in {"str", "int"}, i \in {"str", "int"}, a \in {"object", "str"},
            r \in RelationshipsValues}

Valid == [exc |-> None, pointer |-> <<>>]

\* raise InvalidDocument(detail=..., source_pointer=source_pointer)
Invalid(source_pointer) == [exc |-> NewError("InvalidDocument"), pointer |-> source_pointer]

\* assert_meta_object, assert_attributes_object, and assert_links_object on a links
\* object without members
assert_object(d, source_pointer) ==
    IF d.json # "object" THEN Invalid(source_pointer) ELSE Valid

\* assert_resource_identifier_object; the meta member is checked by
\* "self.assert_meta_object(...)" in a function that binds no name self
assert_resource_identifier_object(d, source_pointer) ==
    IF d.json # "object" THEN Invalid(source_pointer)
    ELSE IF ~(d.keys \subseteq {"id", "type", "meta"}) THEN Invalid(source_pointer)
    ELSE IF "meta" \in d.keys THEN [exc |-> PyException("NameError"), pointer |-> <<>>]
    ELSE IF "type" \notin d.keys THEN Invalid(source_pointer)
    ELSE IF d.type.json # "str" THEN Invalid(Append(source_pointer, "type"))
    ELSE IF "id" \notin d.keys THEN Invalid(source_pointer)
    ELSE IF d.id.json # "str" THEN Invalid(Append(source_pointer, "id"))
    ELSE Valid

\* the loop of assert_resource_linkage over enumerate(d), from the item i on
RECURSIVE AssertItemsFrom(_, _, _)
AssertItemsFrom(items, i, source_pointer) ==
    IF i > Len(items) THEN Valid
    ELSE With(assert_resource_identifier_object(
                  items[i], Append(source_pointer, Digits(i - 1))), LAMBDA r :
           IF r.exc # None THEN r ELSE AssertItemsFrom(items, i + 1, source_pointer))

\* assert_resource_linkage
assert_resource_linkage(d, source_pointer) ==
    IF d.json = "null" THEN Valid
    ELSE IF d.json = "object" THEN assert_resource_identifier_object(d, source_pointer)
    ELSE IF d.json = "array" THEN AssertItemsFrom(d.items, 1, source_pointer)
    ELSE Invalid(source_pointer)

\* assert_relationship_object on a JSON value
assert_relationship_value(d, source_pointer) ==
    IF d.json # "object" THEN Invalid(source_pointer)
    ELSE IF d.keys = {} THEN Invalid(source_pointer)
    ELSE IF ~(d.keys \subseteq {"links", "data", "meta"}) THEN Invalid(source_pointer)
    ELSE With(IF "links" \in d.keys
              THEN assert_object(d.links, Append(source_pointer, "links"))
              ELSE Valid, LAMBDA links :
           IF links.exc # None THEN links
           ELSE With(IF "meta" \in d.keys
                     THEN assert_object(d.meta, Append(source_pointer, "meta"))
                     ELSE Valid, LAMBDA meta :
                  IF meta.exc # None THEN meta
                  ELSE IF "data" \in d.keys
                  THEN assert_resource_linkage(d.data, Append(source_pointer, "data"))
                  ELSE Valid))

\* assert_relationships_object: the loop over d.items()
RECURSIVE AssertMembersFrom(_, _, _)
AssertMembersFrom(members, i, source_pointer) ==
    IF i > Len(members) THEN Valid
    ELSE With(assert_relationship_value(
                  members[i].value, Append(source_pointer, members[i].name)), LAMBDA r :
           IF r.exc # None THEN r ELSE AssertMembersFrom(members, i + 1, source_pointer))

assert_relationships_object(d, source_pointer) ==
    IF d.json # "object" THEN Invalid(source_pointer)
    ELSE AssertMembersFrom(d.members, 1, source_pointer)

\* assert_resource_object on a JSON value
assert_resource_value(d, source_pointer) ==
    IF d.json # "object" THEN Invalid(source_pointer)
    ELSE IF ~(d.keys \subseteq {"id", "type", "attributes", "relationships", "links", "meta"})
    THEN Invalid(source_pointer)
    ELSE IF "type" \notin d.keys THEN Invalid(source_pointer)
    ELSE IF d.type.json # "str" THEN Invalid(Append(source_pointer, "type"))
    ELSE IF "id" \in d.keys /\ d.id.json # "str" THEN Invalid(Append(source_pointer, "id"))
    ELSE With(IF "attributes" \in d.keys
              THEN assert_object(d.attributes, Append(source_pointer, "attributes"))
              ELSE Valid, LAMBDA attributes :
           IF attributes.exc # None THEN attributes
           ELSE IF "relationships" \in d.keys
           THEN assert_relationships_object(d.relationships,
                                            Append(source_pointer, "relationships"))
           ELSE Valid)

NoValidation == [op |-> "", exc |-> None, pointer |-> <<>>]

InitVal ==
    /\ api = "base"
    /\ debug = FALSE
    /\ store = GraphEmpty
    /\ pc = "validators"
    /\ req = NoRequest
    /\ handler = NoHandler
    /\ exc = None
    /\ calls = <<>>
    /\ trace = <<>>
    /\ result = NoResult
    /\ \/ \E d \in IdentifierValues \cup {[json |-> "str"]} :
             fin = [fn |-> "assert_resource_identifier_object", d |-> d]
       \/ \E d \in LinkageValues : fin = [fn |-> "assert_resource_linkage", d |-> d]
       \/ \E d \in RelationshipValues : fin = [fn |-> "assert_relationship_object", d |-> d]
       \/ \E d \in ResourceValues : fin = [fn |-> "assert_resource_object", d |-> d]
    /\ fout = NoValidation

Validated(r) ==
    /\ fout' = [op |-> fin.fn, exc |-> r.exc, pointer |-> r.pointer]
    /\ UNCHANGED <<api, debug, store, pc, req, handler, exc, calls, trace, result, fin>>

\* validators.assert_resource_identifier_object(d, "/data/")
ValIdentifier ==
    /\ pc = "validators" /\ fout.op = "" /\ fin.fn = "assert_resource_identifier_object"
    /\ Validated(assert_resource_identifier_object(fin.d, <<"data">>))

\* validators.assert_resource_linkage(d, "/data/")
ValLinkage ==
    /\ pc = "validators" /\ fout.op = "" /\ fin.fn = "assert_resource_linkage"
    /\ Validated(assert_resource_linkage(fin.d, <<"data">>))

\* validators.assert_relationship_object(d)
ValRelationship ==
    /\ pc = "validators" /\ fout.op = "" /\ fin.fn = "assert_relationship_object"
    /\ Validated(assert_relationship_value(fin.d, <<>>))

\* validators.assert_resource_object(d, "/data/")
ValResource ==
    /\ pc = "validators" /\ fout.op = "" /\ fin.fn = "assert_resource_object"
    /\ Validated(assert_resource_value(fin.d, <<"data">>))

NextVal ==
    \/ ValIdentifier
    \/ ValLinkage
    \/ ValRelationship
    \/ ValResource

SpecVal == InitVal /\ [][NextVal]_vars


(***************************************************************************)
(* The staging of the motorengine session: fin is the session with its     *)
(* containers _saved_resources, _deleted_resources (keyed by identifier)   *)
(* and _added_resources (the resources saved while their id attribute was  *)
(* unset); identified holds the resources whose id attribute is set. calls *)
(* is the sequence of the calls made on the session, fout the documents    *)
(* the last commit() wrote.                                                *)
(***************************************************************************)
MaxCalls == 4

\* a new document, its id attribute unset until the backend inserts it
N1 == <<"User", "">>

Documents == Held \cup {N1}

\* jsonapi.motorengine.database.Session.save([resource])
MotorengineSave(s, resource) ==
    IF resource \in s.identified
    THEN [s EXCEPT !.saved = @ \cup {resource}, !.deleted = @ \ {resource}]
    ELSE [s EXCEPT !.added = @ \cup {resource}]

\* Session.delete([resource]) without the pop and the discard
MotorengineDeleteKeeping(s, resource) ==
    IF resource \in s.identified
    THEN [s EXCEPT !.deleted = @ \cup {resource}]
    ELSE s

\* jsonapi.motorengine.database.Session.delete([resource])
MotorengineDelete(s, resource) ==
    IF resource \in s.identified
    THEN [s EXCEPT !.deleted = @ \cup {resource}, !.saved = @ \ {resource}]
    ELSE [s EXCEPT !.added = @ \ {resource}]

\* jsonapi.motorengine.database.Session.commit(): resource.save() on the added and
\* the saved resources, resource.delete() on the deleted ones; a document gets its
\* id when it is inserted, and the session keeps its containers
MotorengineCommit(s, st) ==
    [s |-> [s EXCEPT !.identified = @ \cup s.added],
     st |-> Written(st, s.saved, s.deleted),
     saved |-> s.added \cup s.saved,
     deleted |-> s.deleted]

NoCommit == [op |-> "", saved |-> {}, deleted |-> {}]

InitStage ==
    /\ api = "asyncio"
    /\ debug = FALSE
    /\ store \in Graphs
    /\ pc = "staging"
    /\ req = NoRequest
    /\ handler = NoHandler
    /\ exc = None
    /\ calls = <<>>
    /\ trace = <<>>
    /\ result = NoResult
    /\ fin = [adapter |-> "motorengine", saved |-> {}, deleted |-> {}, added |-> {},
              identified |-> Held]
    /\ fout = NoCommit

\* session.save([resource])
StageSave ==
    /\ pc = "staging" /\ Len(calls) < MaxCalls
    /\ \E resource \in Documents :
          /\ fin' = MotorengineSave(fin, resource)
          /\ calls' = Append(calls, Call("save", <<resource>>))
    /\ UNCHANGED <<api, debug, store, pc, req, handler, exc, trace, result, fout>>

\* session.delete([resource])
StageDelete ==
    /\ pc = "staging" /\ Len(calls) < MaxCalls
    /\ \E resource \in Documents :
          /\ fin' = MotorengineDelete(fin, resource)
          /\ calls' = Append(calls, Call("delete", <<resource>>))
    /\ UNCHANGED <<api, debug, store, pc, req, handler, exc, trace, result, fout>>

\* session.commit()
StageCommit ==
    /\ pc = "staging" /\ Len(calls) < MaxCalls
    /\ LET r == MotorengineCommit(fin, store)
       IN  /\ fin' = r.s
           /\ store' = r.st
           /\ fout' = [op |-> "commit", saved |-> r.saved, deleted |-> r.deleted]
    /\ calls' = Append(calls, Call("commit", <<>>))
    /\ UNCHANGED <<api, debug, pc, req, handler, exc, trace, result>>

NextStage ==
    \/ StageSave
    \/ StageDelete
    \/ StageCommit

SpecStage == InitStage /\ [][NextStage]_vars

(***************************************************************************)
(* Properties.                                                             *)
(***************************************************************************)
\* the positions of the calls of op in the session's log
Pos(op) == {i \in 1..Len(calls) : calls[i].op = op}

\* the session was asked neither to save, nor to delete, nor to commit
NoMutation == Pos("save") = {} /\ Pos("delete") = {} /\ Pos("commit") = {}

\* the stages of handle_request entered so far
Stages == {trace[i] : i \in 1..Len(trace)}

\* handle_request returned the handler's response
Success == pc = "done" /\ result.kind = "response" /\ "return" \in Stages

\* the verbs of the dispatch table, per endpoint kind
DispatchTable(kind) ==
    CASE kind = "collection" -> {"get", "post"}
      [] kind = "resource" -> {"get", "patch", "delete"}
      [] kind = "relationships" -> {"get", "post", "patch", "delete"}
      [] kind = "related" -> {"get"}
      [] OTHER -> {}

\* the request names an endpoint whose preparation has nothing to object to
Preparable ==
    /\ handler.kind # ""
    /\ req.ctype = JsonApiMediaType
    /\ handler.typename \in Typenames
    /\ handler.kind # "collection" =>
          store[<<handler.typename, handler.resource_id>>].exists
    /\ handler.kind = "relationships" =>
          handler.relname \in SchemaRelationships(handler.typename)

\* C1 (as stated): a request whose (endpoint kind, verb) pair is not in the dispatch
\* table ends as MethodNotAllowed (status 405) and never saves, deletes or commits.
C1Original ==
    (pc = "done" /\ Preparable /\ req.method \notin DispatchTable(handler.kind)) =>
        /\ NoMutation
        /\ IF debug
           THEN result.kind = "raised" /\ result.exc.cls = "MethodNotAllowed"
           ELSE result.kind = "response" /\ result.response.status = 405

\* C2 (as stated): a mutating verb that completes successfully has called
\* save([resource]), then commit(), before it built the response.
C2Original ==
    (Success /\ req.method \in {"post", "patch", "delete"}) =>
        \E i \in Pos("save"), j \in Pos("commit"), k \in Pos("respond") :
            i < j /\ j < k /\ calls[i].ids = <<handler.resource[1].id>>

\* the staging call of a verb: delete for DELETE on a resource, save otherwise
StagingCall == IF handler.kind = "resource" /\ req.method = "delete" THEN "delete" ELSE "save"

\* C2 (amended): a mutating verb that completes successfully has staged the resource
\* (delete([resource]) for DELETE on a resource endpoint, save([resource]) for
\* every other mutating verb), then called commit(), before it built the response;
\* it made no other staging call.
C2Amended ==
    (Success /\ req.method \in {"post", "patch", "delete"}) =>
        /\ \E i \in Pos(StagingCall), j \in Pos("commit"), k \in Pos("respond") :
              i < j /\ j < k /\ calls[i].ids = <<handler.resource[1].id>>
        /\ Pos("save") \cup Pos("delete") = Pos(StagingCall)

\* a PATCH that completed successfully and saved
C2Witness == Success /\ req.method = "patch" /\ Pos("save") # {}

\* C3: a GET request, whatever its endpoint and outcome, never calls save, delete
\* or commit on the session.
C3 == req.method = "get" => NoMutation

\* a GET request whose verb handler ran and whose response was returned
C3Witness == Success /\ req.method = "get" /\ Pos("respond") # {}

\* C4: prepare() runs to completion before the verb handler, the verb handler before
\* the response is returned; when prepare() raises, no verb handler is entered and
\* nothing is saved, deleted or committed.
C4 ==
    /\ pc = "handle" => exc = None /\ trace # <<>> /\ trace[Len(trace)] = "prepare"
    /\ \A i \in 1..Len(trace) :
          /\ trace[i] = "handle" => i > 1 /\ trace[i - 1] = "prepare"
          /\ trace[i] = "return" => i > 1 /\ trace[i - 1] = "handle"
    /\ Pos("respond") # {} => "handle" \in Stages
    /\ "prepare raised" \in Stages =>
          "handle" \notin Stages /\ NoMutation /\ Pos("respond") = {}

\* prepare() raised NotFound and the request ended
C4Witness == pc = "done" /\ "prepare raised" \in Stages /\ exc.cls = "NotFound"

\* C5 (as stated): with debug off an Error or ErrorList raised inside handle_request
\* is returned as a Response with the error's status; with debug on it is raised.
C5Original ==
    (pc = "done" /\ Caught(exc)) =>
        IF debug THEN result.kind = "raised" /\ result.exc = exc
        ELSE /\ result.kind = "response"
             /\ IsError(exc) => result.response.status = exc.status

\* C6: an exception that is neither an Error nor an ErrorList leaves handle_request
\* as it is, with debug on and off; no Response is returned.
C6 ==
    (pc = "done" /\ exc # None /\ ~IsError(exc) /\ ~IsErrorList(exc)) =>
        result.kind = "raised" /\ result.exc = exc

\* a TypeError left handle_request with debug off
C6Witness == pc = "done" /\ ~debug /\ exc.cls = "TypeError" /\ result.kind = "raised"

\* the fields a resource object names, attributes first, in the body's order
FieldNames(doc) ==
    [k \in 1..Len(doc.attrs) |-> doc.attrs[k].name]
    \o [k \in 1..Len(doc.rels) |-> doc.rels[k].name]

\* the setters of the resource object that raise an Error, in the same order
FieldErrors(doc) ==
    SelectSeq([k \in 1..Len(doc.attrs) |-> doc.attrs[k].b]
              \o [k \in 1..Len(doc.rels) |-> doc.rels[k].b],
              LAMBDA b : b = "Error")

\* the linkage has the shape of the relationship and names stored resources
LinkageFits(typename, rel) ==
    /\ rel.name \in SchemaRelationships(typename)
    /\ IF ToMany(typename, rel.name) THEN rel.obj.kind = "many"
       ELSE rel.obj.kind \in {"null", "one"}
    /\ \A k \in 1..Len(rel.obj.ids) : store[rel.obj.ids[k]].exists

\* a PATCH on a resource reached update_resource with a body that fits the resource
\* and the schema, every setter either storing its value or raising one Error
PatchedResource ==
    /\ "handle" \in Stages
    /\ handler.kind = "resource" /\ req.method = "patch"
    /\ req.body.kind = "object"
    /\ req.body.type = handler.typename /\ req.body.id = handler.resource_id
    /\ \A k \in 1..Len(req.body.attrs) :
          /\ req.body.attrs[k].name \in SchemaAttributes(handler.typename)
          /\ req.body.attrs[k].b \in {"ok", "Error"}
    /\ \A k \in 1..Len(req.body.rels) :
          /\ req.body.rels[k].b \in {"ok", "Error"}
          /\ LinkageFits(handler.typename, req.body.rels[k])

\* C7 (as stated): update_resource attempts the setter of every attribute and
\* relationship of the body, also after a setter raised an Error, and then raises
\* one ErrorList holding every Error in order; it raises nothing if no setter raised.
C7Original ==
    PatchedResource =>
        /\ handler.attempts = FieldNames(req.body)
        /\ IF FieldErrors(req.body) = <<>> THEN Pos("save") # {}
           ELSE /\ IsErrorList(exc)
                /\ exc.errors = [k \in 1..Len(FieldErrors(req.body)) |->
                                    NewError("ReadOnlyAttribute")]

\* the identifiers the relationship relname of the resources S names
RelativesOf(st, S, relname) ==
    UNION {{st[i].rel[k] : k \in 1..Len(st[i].rel)} : i \in S}

\* the identifiers reached along path from step k on, starting at the resources S
RECURSIVE Reached(_, _, _, _)
Reached(st, S, path, k) ==
    IF k > Len(path) THEN {}
    ELSE RelativesOf(st, S, path[k])
         \cup Reached(st, RelativesOf(st, S, path[k]), path, k + 1)

\* every step of path is a relationship of the resources it is asked of, and
\* every relative on the way is stored
RECURSIVE Resolvable(_, _, _, _)
Resolvable(st, S, path, k) ==
    IF k > Len(path) THEN TRUE
    ELSE /\ \A i \in S : path[k] \in SchemaRelationships(i[1])
         /\ \A t \in RelativesOf(st, S, path[k]) : st[t].exists
         /\ Resolvable(st, RelativesOf(st, S, path[k]), path, k + 1)

\* the identifiers of the resources the resolver was given
Roots == {fin.resources[k].id : k \in 1..Len(fin.resources)}

\* C8 (as stated): the include resolver returns a map whose keys are exactly the
\* identifiers reached over all paths and all steps, each mapped to its resource.
C8Original ==
    (pc = "done" /\ fin.resolver # ""
     /\ \A p \in 1..Len(fin.paths) : Resolvable(store, Roots, fin.paths[p], 1)) =>
        /\ fout.exc = None
        /\ Keys(fout.val) = UNION {Reached(store, Roots, fin.paths[p], 1) :
                                      p \in 1..Len(fin.paths)}
        /\ \A k \in 1..Len(fout.val) : fout.val[k].res[1].id = fout.val[k].id

C10Original ==
    (pc = "done" /\ fin.resolver # ""
     /\ \E p \in 1..Len(fin.paths) :
           /\ \A q \in 1..(p - 1) : Resolvable(store, Roots, fin.paths[q], 1)
           /\ \E i \in Roots : fin.paths[p][1] \notin SchemaRelationships(i[1])) =>
        /\ fout.exc.cls \in {"IncludePathNotFound", "UnresolvableIncludePath"}
        /\ fout.exc.status = 400

\* C11 (as stated): save and delete change nothing in the backend until commit()
\* is called, and after commit() every staged save and delete has been applied.
C11Original ==
    /\ fout.op \in {"save", "delete"} => store = fout.before
    /\ fout.op = "commit" => store = Written(fout.before, fout.saved, fout.deleted)

\* C12 (as stated): get returns the resource when it exists; when it does not, get
\* returns None if required is false and raises ResourceNotFound if required is true.
C12Original ==
    fout.op = "get" =>
        IF store[fout.ids[1]].exists
        THEN fout.exc = None /\ Len(fout.val) = 1 /\ fout.val[1].id = fout.ids[1]
        ELSE IF fout.required THEN fout.exc.cls = "ResourceNotFound"
        ELSE fout.exc = None /\ fout.val = <<>>

\* the identifiers a get_many call was given
Requested == {fout.ids[k] : k \in 1..Len(fout.ids)}

\* C13 (as stated): get_many returns a map whose keys are exactly the requested
\* identifiers, each mapped to its resource, or to None when absent; when required
\* is true and a requested identifier is absent it raises ResourceNotFound.
C13Original ==
    fout.op = "get_many" =>
        IF fout.required /\ \E i \in Requested : ~store[i].exists
        THEN fout.exc.cls = "ResourceNotFound"
        ELSE /\ fout.exc = None
             /\ Keys(fout.val) = Requested
             /\ \A k \in 1..Len(fout.val) :
                   IF store[fout.val[k].id].exists
                   THEN /\ Len(fout.val[k].res) = 1
                        /\ fout.val[k].res[1].id = fout.val[k].id
                   ELSE fout.val[k].res = <<>>

\* the verb handler of a POST on the endpoint of a to-one relationship was entered
PostToOne ==
    /\ "handle" \in Stages
    /\ handler.kind = "relationships" /\ req.method = "post"
    /\ ~ToMany(handler.real_typename, handler.relname)

\* C14: POST on the endpoint of a to-one relationship raises MethodNotAllowed
\* whatever the body is (the body is not read), calls no accessor of the
\* relationship, leaves the relationship as stored and calls neither save nor commit.
C14 ==
    PostToOne =>
        /\ exc = NewError("MethodNotAllowed")
        /\ handler.attempts = <<>>
        /\ handler.mem = store[<<handler.typename, handler.resource_id>>]
        /\ NoMutation /\ Pos("respond") = {}
        /\ pc = "done" => IF debug THEN result.kind = "raised" /\ result.exc = exc
                          ELSE result.kind = "response" /\ result.response.status = 405

\* a POST on Post 1's author whose body is no relationship object ended as 405
C14Witness ==
    /\ PostToOne /\ pc = "done" /\ ~debug
    /\ req.body.kind = "invalid" /\ result.response.status = 405

\* the request names a known type and an id the backend did not hold when the
\* request arrived, on a resource, relationship or related endpoint, with the
\* JSON API media type
Unresolved ==
    /\ pc = "done"
    /\ handler.kind \in {"resource", "relationships", "related"}
    /\ req.ctype = JsonApiMediaType
    /\ handler.typename \in Typenames
    /\ Pos("commit") = {} /\ ~store[<<handler.typename, handler.resource_id>>].exists

\* C15 (as stated): a request whose (type, id) does not resolve ends in NotFound
\* for every method: status 404, and errors[0].status is the string "404".
C15Original ==
    Unresolved =>
        IF debug
        THEN result.kind = "raised" /\ result.exc.cls \in {"NotFound", "ResourceNotFound"}
        ELSE /\ result.kind = "response"
             /\ result.response.status = 404
             /\ result.response.body.errors[1].status = JsonString("404")

\* the resource of a relationship or related endpoint was loaded, and the name in
\* the uri is no relationship of the schema of the loaded resource's type
UnknownRelationship ==
    /\ pc = "done"
    /\ handler.kind \in {"relationships", "related"}
    /\ handler.real_typename \in Typenames
    /\ handler.relname \notin SchemaRelationships(handler.real_typename)

\* C16 (as stated): on the relationship and related endpoints a relationship name
\* that the schema of the loaded resource's actual type does not define yields
\* NotFound (404) for every method.
C16Original ==
    UnknownRelationship =>
        /\ exc.cls = "NotFound"
        /\ IF debug THEN result.kind = "raised" /\ result.exc = exc
           ELSE result.kind = "response" /\ result.response.status = 404

\* a PATCH on a resource reached update_resource with a body that fits the resource
\* and sets attributes of the schema only, one of them without a write accessor
PatchedReadOnly ==
    /\ pc = "done" /\ "handle" \in Stages
    /\ handler.kind = "resource" /\ req.method = "patch"
    /\ req.body.kind = "object"
    /\ req.body.type = handler.typename /\ req.body.id = handler.resource_id
    /\ req.body.rels = <<>>
    /\ \A k \in 1..Len(req.body.attrs) :
          /\ req.body.attrs[k].name \in SchemaAttributes(handler.typename)
          /\ req.body.attrs[k].b \in {"ok", "NoSetter"}
    /\ \E k \in 1..Len(req.body.attrs) : req.body.attrs[k].b = "NoSetter"

\* C17 (as stated): a PATCH body that sets an attribute without a write accessor
\* fails with ReadOnlyAttribute (403), and the value of that attribute is unchanged.
C17Original ==
    PatchedReadOnly =>
        /\ \/ exc = NewError("ReadOnlyAttribute")
           \/ IsErrorList(exc) /\ \A k \in 1..Len(exc.errors) :
                                     exc.errors[k] = NewError("ReadOnlyAttribute")
        /\ ~debug => result.kind = "response" /\ result.response.status = 403
        /\ \A k \in 1..Len(req.body.attrs) :
              req.body.attrs[k].b = "NoSetter" =>
                  store[<<handler.typename, handler.resource_id>>].attrs[req.body.attrs[k].name] = "v0"

\* the names are in strictly ascending order
Ascending(names) == \A i, j \in 1..Len(names) : i < j => StrLess(names[i], names[j])

\* the names of the markers of one kind that the fields argument lets through
Selected(declared, kind, fields) ==
    {declared[k].name : k \in {m \in 1..Len(declared) :
        declared[m].kind = kind /\ Included(fields, declared[m].name)}}

\* C18: serialize_resource emits the attribute keys and the relationship keys in
\* ascending lexicographic order, whatever the order of declaration and of the
\* fields argument, and a second call with the same fields argument on the
\* unmodified resource emits the same key sequences.
C18 ==
    fout.op = "serialize" /\ fout.exc = None =>
        /\ Ascending(fout.val.attributes)
        /\ Ascending(fout.val.relationships)
        /\ {fout.val.attributes[k] : k \in 1..Len(fout.val.attributes)}
              = Selected(fin.declared, "attribute", fout.fields)
        /\ {fout.val.relationships[k] : k \in 1..Len(fout.val.relationships)}
              = Selected(fin.declared, "relationship", fout.fields)
        /\ fout.twice => fout.again = [exc |-> None, val |-> fout.val]

\* two attributes declared and listed in descending order were serialized twice,
\* the second time from dictionaries in another order
C18Witness ==
    /\ fout.op = "serialize" /\ fout.exc = None /\ fout.twice
    /\ fout.order # fin.declared
    /\ Len(fout.val.attributes) = 2
    /\ fout.fields.given /\ fout.fields.names # fout.val.attributes
    /\ find_fields(fin.declared, "attribute") # fout.val.attributes

\* page[number] and page[size] are both present and valid
ValidPage ==
    /\ fin.number.kind = "int" /\ fin.number.n >= 1
    /\ fin.size.kind = "int" /\ fin.size.n >= 1

\* the resources of page p of size n out of total, in the sort order
PageOf(total, p, n) ==
    [k \in 1..(IF total - n * (p - 1) < 0 THEN 0
               ELSE IF total - n * (p - 1) < n THEN total - n * (p - 1) ELSE n)
        |-> n * (p - 1) + k]

\* C19 (as stated): with page[number] = p and page[size] = n present and valid, a
\* collection GET queries the adapter with limit n and offset n * (p - 1) and
\* answers with a success status and the resources of that page, an empty data
\* array when p is beyond the last page.
C19Original ==
    pc = "done" /\ fout.op = "handle_request" /\ ValidPage =>
        /\ fout.query.limit.given /\ fout.query.limit.n = fin.size.n
        /\ fout.query.offset.given
        /\ fout.query.offset.n = fin.size.n * (fin.number.n - 1)
        /\ result.kind = "response"
        /\ result.response.status = 200
        /\ result.response.body.data = PageOf(fin.total, fin.number.n, fin.size.n)

\* the value of key in a dictionary given as the sequence of its items
ValueOf(items, key) == items[CHOOSE k \in 1..Len(items) : items[k].key = key].value

ItemKeys(items) == {items[k].key : k \in 1..Len(items)}

Succeeded == pc = "done" /\ result.kind = "response" /\ exc = None

\* C21 (as stated): the Response of a successful request has the status 200 for
\* GET and PATCH, 201 with a Location header for the POST that creates a resource,
\* and 204 without a body for the DELETE of a resource.
C21Original ==
    Succeeded =>
        /\ req.method \in {"get", "patch"} => result.response.status = 200
        /\ handler.kind = "collection" /\ req.method = "post" =>
              result.response.status = 201 /\ result.response.location
        /\ handler.kind = "resource" /\ req.method = "delete" =>
              result.response.status = 204 /\ result.response.body = None

\* C22 (as stated): a POST on the collection /User whose data.type is not User
\* fails with Conflict (409), and nothing is saved or committed.
C22Original ==
    pc = "done" /\ fout.op = "post" /\ fout.body.kind = "object"
                /\ fout.body.type # "User" =>
        /\ exc = NewError("Conflict")
        /\ IF debug THEN result.kind = "raised" /\ result.exc = exc
           ELSE result.kind = "response" /\ result.response.status = 409
        /\ calls = <<>>

\* the identifier objects of a sequence of identifiers
IdentifierObjects(ids) == [k \in 1..Len(ids) |-> [type |-> ids[k][1], id |-> ids[k][2]]]

\* a PATCH on a relationship endpoint reached the verb handler with a linkage that
\* has the shape of the relationship and names stored resources, the setter storing it
ReplacedRelationship ==
    /\ pc = "done" /\ "handle" \in Stages
    /\ handler.kind = "relationships" /\ req.method = "patch"
    /\ req.b = "ok"
    /\ IF ToMany(handler.real_typename, handler.relname) THEN req.body.kind = "many"
       ELSE req.body.kind \in {"null", "one"}
    /\ \A k \in 1..Len(req.body.ids) : store[req.body.ids[k]].exists

\* a GET on a relationship endpoint reached the verb handler
ReadRelationship ==
    /\ pc = "done" /\ "handle" \in Stages
    /\ handler.kind = "relationships" /\ req.method = "get"

\* C23 (as stated): a PATCH that replaces a relationship leaves exactly the
\* identifiers sent as its linkage, so that repeating it changes nothing, and
\* answers with them; a GET on the relationship endpoint returns the linkage as data.
C23Original ==
    /\ ReplacedRelationship =>
          /\ store[<<handler.typename, handler.resource_id>>].rel = req.body.ids
          /\ result.kind = "response"
          /\ result.response.body.data = IdentifierObjects(req.body.ids)
    /\ ReadRelationship =>
          /\ result.kind = "response"
          /\ result.response.body.data
                = IdentifierObjects(store[<<handler.typename, handler.resource_id>>].rel)

\* the add_type calls so far that registered the class c, or the typename t
AddedClass(c) == {k \in 1..Len(fin.added) : fin.added[k].resource_class = c}
AddedTypename(t) == {k \in 1..Len(fin.added) : fin.added[k].typename = t}

Latest(S) == CHOOSE k \in S : \A j \in S : j <= k

\* what a lookup answers for registered classes and typenames: the typename of the
\* class's latest registration, for the class and for its instances alike, and the
\* resource class of the typename's latest registration
ResolvesRegistered ==
    /\ fout.op = "get_typename" /\ AddedClass(fout.o.cls) # {} =>
          /\ fout.exc = None
          /\ fout.val = fin.added[Latest(AddedClass(fout.o.cls))].typename
    /\ fout.op \in {"schemas", "serializers", "unserializers", "resource_classes"}
          /\ AddedTypename(fout.typename) # {} =>
          /\ fout.exc = None
          /\ fout.val = fin.added[Latest(AddedTypename(fout.typename))].resource_class

\* the lookup was of a class or typename no add_type call registered, without default
Unregistered ==
    \/ fout.op = "get_typename" /\ AddedClass(fout.o.cls) = {} /\ ~fout.default
    \/ fout.op \in {"schemas", "serializers", "unserializers", "resource_classes"}
          /\ AddedTypename(fout.typename) = {}

C30Original ==
    \A t \in SchemaTypenames :
        /\ registry_has_type(fin.reg, t)
              <=> /\ t \in Keys(fin.reg.schemas) /\ t \in Keys(fin.reg.serializers)
                  /\ t \in Keys(fin.reg.unserializers)
                  /\ t \in Keys(fin.reg.resource_classes)
        /\ registry_has_type(fin.reg, t) =>
              /\ Cardinality({k \in 1..Len(fin.reg.typenames) :
                                 fin.reg.typenames[k].value = t}) = 1
              /\ Cardinality({k \in 1..Len(get_typenames(fin.reg)) :
                                 get_typenames(fin.reg)[k] = t}) = 1

\* the locations at which the identifier object d at p breaks the JSON API shape
OffendingIdentifier(d, p) ==
    {q \in {p} : \/ d.json # "object"
                 \/ ~(d.keys \subseteq {"id", "type", "meta"})
                 \/ ~({"id", "type"} \subseteq d.keys)}
    \cup (IF d.json # "object" THEN {}
          ELSE {Append(p, k) : k \in {k \in d.keys \cap {"id", "type"} : d[k].json # "str"}}
               \cup {Append(p, k) : k \in {k \in d.keys \cap {"meta"} :
                                              d[k].json # "object"}})

OffendingLinkage(d, p) ==
    IF d.json = "null" THEN {}
    ELSE IF d.json = "object" THEN OffendingIdentifier(d, p)
    ELSE IF d.json = "array"
    THEN UNION {OffendingIdentifier(d.items[i], Append(p, Digits(i - 1))) :
                   i \in 1..Len(d.items)}
    ELSE {p}

OffendingRelationship(d, p) ==
    {q \in {p} : \/ d.json # "object"
                 \/ d.keys = {}
                 \/ ~(d.keys \subseteq {"data", "links", "meta"})}
    \cup (IF d.json # "object" THEN {}
          ELSE {Append(p, k) : k \in {k \in d.keys \cap {"links", "meta"} :
                                         d[k].json # "object"}}
               \cup (IF "data" \in d.keys THEN OffendingLinkage(d.data, Append(p, "data"))
                     ELSE {}))

OffendingResource(d, p) ==
    {q \in {p} : \/ d.json # "object"
                 \/ ~(d.keys \subseteq {"id", "type", "attributes", "relationships",
                                        "links", "meta"})
                 \/ "type" \notin d.keys}
    \cup (IF d.json # "object" THEN {}
          ELSE {Append(p, k) : k \in {k \in d.keys \cap {"id", "type"} : d[k].json # "str"}}
               \cup {Append(p, k) : k \in {k \in d.keys \cap {"attributes"} :
                                              d[k].json # "object"}}
               \cup (IF "relationships" \notin d.keys THEN {}
                     ELSE IF d.relationships.json # "object"
                     THEN {Append(p, "relationships")}
                     ELSE UNION {OffendingRelationship(
                                     d.relationships.members[i].value,
                                     Append(Append(p, "relationships"),
                                            d.relationships.members[i].name)) :
                                   i \in 1..Len(d.relationships.members)}))

\* the offending locations of the document that was validated
Offending ==
    CASE fin.fn = "assert_resource_identifier_object" -> OffendingIdentifier(fin.d, <<"data">>)
      [] fin.fn = "assert_resource_linkage" -> OffendingLinkage(fin.d, <<"data">>)
      [] fin.fn = "assert_relationship_object" -> OffendingRelationship(fin.d, <<>>)
      [] OTHER -> OffendingResource(fin.d, <<"data">>)

\* C25 (as stated): validation raises nothing for a document that has the JSON API
\* shape, and for any other raises InvalidDocument (400) whose source_pointer names
\* an offending location.
C25Original ==
    fout.op # "" =>
        IF Offending = {} THEN fout.exc = None
        ELSE /\ fout.exc = NewError("InvalidDocument")
             /\ fout.exc.status = 400
             /\ fout.pointer \in Offending

\* the arguments of the get_many calls a walk along path owes from step k on,
\* starting at the resources S: per step the identifiers related to all of them
RECURSIVE StepUnions(_, _, _, _)
StepUnions(st, S, path, k) ==
    IF k > Len(path) THEN <<>>
    ELSE <<RelativesOf(st, S, path[k])>>
         \o StepUnions(st, RelativesOf(st, S, path[k]), path, k + 1)

\* the same over the paths from the path p on
RECURSIVE PathUnions(_, _, _, _)
PathUnions(st, S, paths, p) ==
    IF p > Len(paths) THEN <<>>
    ELSE StepUnions(st, S, paths[p], 1) \o PathUnions(st, S, paths, p + 1)

\* the get_many calls of the resolver, in the order they were issued
GetManyCalls == SelectSeq(fout.log, LAMBDA c : c.op = "get_many")

\* the resolver was called with paths that can be walked to their ends
ResolvedWalk ==
    /\ pc = "done" /\ fin.resolver # ""
    /\ \A p \in 1..Len(fin.paths) : Resolvable(store, Roots, fin.paths[p], 1)

RECURSIVE SumOfLengths(_)
SumOfLengths(paths) ==
    IF paths = <<>> THEN 0 ELSE Len(Head(paths)) + SumOfLengths(Tail(paths))

\* C26 (as stated): each step of each include path issues exactly one get_many call,
\* whose argument is the deduplicated union of the identifiers related to all
\* resources current at that step, the calls of a path following one another in the
\* order of its steps.
C26Original ==
    ResolvedWalk =>
        /\ Len(GetManyCalls) = Len(PathUnions(store, Roots, fin.paths, 1))
        /\ \A n \in 1..Len(GetManyCalls) :
              /\ n <= Len(PathUnions(store, Roots, fin.paths, 1))
              /\ {GetManyCalls[n].ids[k] : k \in 1..Len(GetManyCalls[n].ids)}
                     = PathUnions(store, Roots, fin.paths, 1)[n]
              /\ \A j, k \in 1..Len(GetManyCalls[n].ids) :
                    GetManyCalls[n].ids[j] = GetManyCalls[n].ids[k] => j = k

\* C27 (as stated): include resolution ends for every list of include paths, also
\* on a graph with cycles, after as many get_many calls as the sum of the lengths of
\* the paths, whatever the graph.
C27Original ==
    ResolvedWalk =>
        /\ fout.exc = None
        /\ Len(GetManyCalls) = SumOfLengths(fin.paths)

\* the positions of the save and delete calls made on the resource r
CallsOn(r) == {i \in 1..Len(calls) : calls[i].op \in {"save", "delete"} /\ calls[i].ids = <<r>>}

\* the later of the save and delete calls on r, "" if there was none
LastCall(r) ==
    IF CallsOn(r) = {} THEN ""
    ELSE calls[CHOOSE i \in CallsOn(r) : \A j \in CallsOn(r) : j <= i].op

\* the session has been given save and delete calls only
Uncommitted == Pos("commit") = {}

\* the first commit() of the session has just returned
FirstCommit == Pos("commit") = {Len(calls)} /\ calls # <<>>

\* C29: in the motorengine session, after any sequence of save and delete calls no
\* resource is staged both for saving and for deletion and the later of the save
\* and delete calls on a resource decides where it is staged; a resource without
\* id that was saved and then deleted is not written by the commit() that follows.
C29 ==
    pc = "staging" =>
        /\ fin.saved \cap fin.deleted = {}
        /\ \A r \in Held :
              /\ LastCall(r) = "save" => r \in fin.saved /\ r \notin fin.deleted
              /\ LastCall(r) = "delete" => r \in fin.deleted /\ r \notin fin.saved
        /\ Uncommitted =>
              /\ fin.added \cap fin.deleted = {}
              /\ LastCall(N1) = "save" => N1 \in fin.added
              /\ LastCall(N1) = "delete" => N1 \notin fin.added
        /\ FirstCommit =>
              /\ LastCall(N1) = "delete" => N1 \notin fout.saved
              /\ LastCall(N1) = "save" => N1 \in fout.saved
              /\ \A r \in Held :
                    /\ LastCall(r) = "save" => r \in fout.saved /\ r \notin fout.deleted
                    /\ LastCall(r) = "delete" => r \in fout.deleted /\ r \notin fout.saved

\* a new resource and a stored one were each saved and then deleted, and commit()
\* followed
C29Witness ==
    /\ pc = "staging" /\ FirstCommit
    /\ \E i, j \in CallsOn(N1) : i < j /\ calls[i].op = "save" /\ calls[j].op = "delete"
    /\ LastCall(N1) = "delete"
    /\ \E r \in Held : LastCall(r) # ""

\* a POST or PATCH handler raised before it began to build its response: the
\* validation of the body, the resolution of an identifier or a setter raised
RaisedInUpdate ==
    /\ "handle" \in Stages
    /\ req.method \in {"post", "patch"}
    /\ exc # None
    /\ Pos("respond") = {}

\* C28: if the validation of the body, the resolution of a referenced identifier or
\* a setter raises during a POST or PATCH, the request calls neither save nor commit.
C28 ==
    RaisedInUpdate => Pos("save") = {} /\ Pos("commit") = {}

\* a PATCH of a resource whose second setter raised after the first one had stored
\* its value
C28Witness ==
    /\ RaisedInUpdate /\ pc = "done"
    /\ handler.kind = "resource" /\ req.body.kind = "object"
    /\ Len(req.body.attrs) = 2
    /\ req.body.attrs[1].b = "ok" /\ req.body.attrs[1].name \in SchemaAttributes(handler.typename)
    /\ req.body.attrs[2].b = "Error" /\ req.body.attrs[2].name \in SchemaAttributes(handler.typename)
    /\ Pos("save") = {}

====
